---- MODULE Spec2Model ----
(***************************************************************************)
(* A model of tk, the file-based ticket tracker:                           *)
(*   - the ID resolver (ticket.ResolveID),                                 *)
(*   - the record store's temp-file/rename mutation (FileStore.Update,     *)
(*     FileStore.UpdateField) over a directory of named files,             *)
(*   - the dependency tree (deptree.Build, Tree.Render).                   *)
(* Each subsystem has its own specification; the variables of the other    *)
(* subsystems stay parked at their initial values.                         *)
(***************************************************************************)
EXTENDS Integers, Sequences, FiniteSets, TLC

\* ------------------------------------------------------------------------
\* Bounds
\* ------------------------------------------------------------------------
\* longest partial identifier handed to ResolveID
MaxPartialLen == 3
\* longest partial identifier handed to a store operation
MaxStorePartialLen == 1
\* number of store operations started in one run
MaxOps == 2
\* number of write calls one serialized record is split into
NChunks == 2
\* number of distinct record values a writer may store
NumVals == 2
\* most dependency edges in a ticket map handed to Build
MaxEdges == 4
\* lines of a record's body
MaxBodyLines == 2
\* ListByModTime's limit argument
MaxLimit == 2
\* commands run in a row
MaxCmds == 4
\* the longest deps or links list of a ticket file written by hand
MaxRefs == 2
\* the number of prune and clean runs on a store written by hand
MaxRuns == 2
\* the largest count of processed work-stack items that is kept
MaxWork == 40

VARIABLES
    \* --- the tickets directory
    dirExists,   \* the storage root exists
    names,       \* the file names present in the directory
    content,     \* file name -> content of the file (a sequence of chunks)
    \* --- one ResolveID call
    partial,     \* the argument
    rpc,         \* position inside ResolveID
    rres,        \* the value returned
    \* --- processes running store operations
    pc,          \* process -> position
    op,          \* process -> the operation and its arguments
    fd,          \* process -> its open file: a name, Orphan or NoFile
    orph,        \* process -> content of its open file once no name has it
    off,         \* process -> offset of the open file, in chunks
    buf,         \* process -> content being written
    ret,         \* process -> result of its last finished operation
    started,     \* number of operations started so far
    \* --- one Build + Render run
    tickets,     \* the ticket map: ID -> Deps
    root,        \* Tree.root
    full,        \* Tree.full
    tpc,         \* position inside Build / Render
    maxDepth,    \* Node.MaxDepth per ticket
    subtreeDepth,\* Node.SubtreeDepth per ticket
    stack,       \* the work stack of the running pass
    computed,    \* computeSubtreeDepths' computed set
    printed,     \* Tree.printed
    frames,      \* the call stack of renderChildren
    output,      \* the lines printed so far
    work,        \* the work-stack items each pass of Build has processed
    \* --- one record and its file text
    tkt,         \* the Ticket handed to Create
    text,        \* the text of the record file, a sequence of lines
    field,       \* UpdateField's field argument
    value,       \* UpdateField's value argument
    parsed,      \* what Parse returned
    xpc,         \* position inside the text operations
    \* --- one List / ListByModTime call
    lop,         \* the operation and its limit argument
    lpc,         \* position inside the operation
    recent,      \* the record files, most recently modified first
    pending,     \* the directory entries still to be read
    listed,      \* the tickets collected so far
    lres,        \* the result returned: "ok" or "err"
    \* --- a sequence of commands
    ncmd,        \* number of commands run so far
    lastCmd      \* the last command run: its name, target and outcome

fsVars == <<dirExists, names, content>>
resVars == <<partial, rpc, rres>>
procVars == <<pc, op, fd, orph, off, buf, ret, started>>
treeVars == <<tickets, root, full, tpc, maxDepth, subtreeDepth, stack,
              computed, printed, frames, output, work>>
textVars == <<tkt, text, field, value, parsed, xpc>>
listVars == <<lop, lpc, recent, pending, listed, lres>>
cmdVars == <<ncmd, lastCmd>>
restVars == <<textVars, listVars, cmdVars>>
vars == <<dirExists, names, content, partial, rpc, rres, pc, op, fd, orph, off, buf,
          ret, started, tickets, root, full, tpc, maxDepth, subtreeDepth, stack,
          computed, printed, frames, output, work, tkt, text, field, value, parsed, xpc,
          lop, lpc, recent, pending, listed, lres, ncmd, lastCmd>>

\* ------------------------------------------------------------------------
\* Identifiers and file names
\* ------------------------------------------------------------------------
\* An ID is a string, modelled as a sequence of characters.
Alphabet == {"a", "b"}

\* rank of a character in byte order
CharRank(c) == IF c = "a" THEN 1 ELSE 2

\* the record IDs a store may hold
Ids == {<<"a">>, <<"a", "b">>, <<"b", "a", "b">>}

\* A file name is <<stem, ext>>: <<id, "md">> is id+".md", the record file;
\* <<id, "tmp">> is id+".md.tmp", the temporary file of Update.
CanonName(id) == <<id, "md">>

FileNames == {<<id, e>> : id \in Ids, e \in {"md", "tmp"}}

\* the records the store operations work on
StoreIds == {<<"a">>, <<"a", "b">>}

\* all strings over Alphabet of length at most n
RECURSIVE StringsUpTo(_)
StringsUpTo(n) ==
    IF n = 0 THEN {<<>>}
    ELSE LET S == StringsUpTo(n - 1)
         IN S \cup {Append(s, c) : s \in {t \in S : Len(t) = n - 1}, c \in Alphabet}

Partials == StringsUpTo(MaxPartialLen)

\* lexicographic (byte) order on strings
RECURSIVE StrLess(_, _)
StrLess(s, t) ==
    IF Len(t) = 0 THEN FALSE
    ELSE IF Len(s) = 0 THEN TRUE
    ELSE IF s[1] # t[1] THEN CharRank(s[1]) < CharRank(t[1])
    ELSE StrLess(Tail(s), Tail(t))

\* order of two file names in a directory listing (os.ReadDir sorts by name)
NameLess(m, n) ==
    IF m[1] # n[1] THEN StrLess(m[1], n[1])
    ELSE m[2] = "md" /\ n[2] = "tmp"

\* strings.HasSuffix(name, ".md")
HasSuffixMd(n) == n[2] = "md"

\* strings.TrimSuffix(name, ".md")
TrimSuffixMd(n) == n[1]

\* strings.HasPrefix(s, sub)
HasPrefix(s, sub) == Len(sub) <= Len(s) /\ SubSeq(s, 1, Len(sub)) = sub

\* strings.Contains(s, sub): sub occurs in s at some offset
Contains(s, sub) ==
    \E i \in 0..Len(s) : i + Len(sub) <= Len(s) /\ SubSeq(s, i + 1, i + Len(sub)) = sub

\* ------------------------------------------------------------------------
\* The directory
\* ------------------------------------------------------------------------
\* os.Stat(path) succeeds
StatOk(de, nm, n) == de /\ n \in nm

\* os.ReadDir: the entries sorted by file name
RECURSIVE SortNames(_)
SortNames(S) ==
    IF S = {} THEN <<>>
    ELSE LET m == CHOOSE x \in S : \A y \in S \ {x} : NameLess(x, y)
         IN <<m>> \o SortNames(S \ {m})

ReadDir(nm) == SortNames(nm)

\* ------------------------------------------------------------------------
\* ResolveID
\* ------------------------------------------------------------------------
NoResult == [kind |-> "none", id |-> <<>>, matches |-> <<>>]
Ok(id) == [kind |-> "ok", id |-> id, matches |-> <<>>]
ErrNotFound(p) == [kind |-> "NotFound", id |-> p, matches |-> <<>>]
ErrAmbiguous(p, ms) == [kind |-> "Ambiguous", id |-> p, matches |-> ms]
ErrIO == [kind |-> "io", id |-> <<>>, matches |-> <<>>]

ExactMatchNever(de, nm, p) == FALSE

\* the exact-match check: os.Stat(partial+".md") succeeds
ExactMatch(de, nm, p) == StatOk(de, nm, CanonName(p))

EntryMatchesPrefix(n, p) == HasSuffixMd(n) /\ HasPrefix(TrimSuffixMd(n), p)

\* the loop body: a ".md" entry whose ID contains the partial
EntryMatches(n, p) == HasSuffixMd(n) /\ Contains(TrimSuffixMd(n), p)

\* the matches collected over the directory listing, in listing order
RECURSIVE CollectMatches(_, _)
CollectMatches(entries, p) ==
    IF entries = <<>> THEN <<>>
    ELSE LET n == Head(entries)
             rest == CollectMatches(Tail(entries), p)
         IN IF EntryMatches(n, p) THEN <<TrimSuffixMd(n)>> \o rest ELSE rest

ClassifyFirstWins(p, ms) ==
    IF Len(ms) = 0 THEN ErrNotFound(p) ELSE Ok(ms[1])

\* the switch on len(matches)
Classify(p, ms) ==
    IF Len(ms) = 0 THEN ErrNotFound(p)
    ELSE IF Len(ms) = 1 THEN Ok(ms[1])
    ELSE ErrAmbiguous(p, ms)

ScanResultStrict(de, nm, p) ==
    IF ~de THEN ErrIO ELSE Classify(p, CollectMatches(ReadDir(nm), p))

\* the partial-match half of ResolveID
ScanResult(de, nm, p) ==
    IF ~de THEN ErrNotFound(p) ELSE Classify(p, CollectMatches(ReadDir(nm), p))

\* ------------------------------------------------------------------------
\* File system primitives
\* ------------------------------------------------------------------------
Procs == {1, 2}

Vals == 1..NumVals

\* a process's open file: none, or a file that no name points at any more
NoFile == <<<<>>, "none">>

Orphan == <<<<>>, "orphan">>

\* a chunk never written, inside a file extended by a write past its end
Hole == 0

\* write(2) of one chunk at offset o: extends the file with holes when o is past its end
WriteAt(c, o, chunk) ==
    [i \in 1..(IF Len(c) > o + 1 THEN Len(c) ELSE o + 1) |->
        IF i = o + 1 THEN chunk ELSE IF i <= Len(c) THEN c[i] ELSE Hole]

\* ------------------------------------------------------------------------
\* Record content
\* ------------------------------------------------------------------------
\* Format(w, t): the serialized record, written by NChunks successive write
\* calls; a record's value v stands for its field values, so every chunk of
\* the serialization of v is v.
Format(v) == [i \in 1..NChunks |-> v]

\* ticket.UpdateField(content, field, value): a text patch of the content it
\* is given; it rewrites what is there and never completes a truncated file.
UpdateFieldContent(c, v) == [i \in 1..Len(c) |-> IF c[i] = Hole THEN Hole ELSE v]

\* a content is a complete record: the whole serialization of one value
Complete(c) == \E v \in Vals : c = Format(v)

TmpNameInPlace(id) == <<id, "md">>

TmpNameShared(id) == <<<<"a">>, "tmp">>

\* tmpPath := path + ".tmp"
TmpName(id) == <<id, "tmp">>

\* ------------------------------------------------------------------------
\* Initial states
\* ------------------------------------------------------------------------
NoOp == [name |-> "none", id |-> <<>>, val |-> 0, partial |-> <<>>]

ParkedRes == partial = <<>> /\ rpc = "off" /\ rres = NoResult

ParkedProcs ==
    /\ pc = [p \in Procs |-> "off"]
    /\ op = [p \in Procs |-> NoOp]
    /\ fd = [p \in Procs |-> NoFile]
    /\ orph = [p \in Procs |-> <<>>]
    /\ off = [p \in Procs |-> 0]
    /\ buf = [p \in Procs |-> <<>>]
    /\ ret = [p \in Procs |-> NoResult]
    /\ started = 0

\* no item processed yet by either pass
NoWork == [pass1 |-> 0, pass2 |-> 0]

\* one more item processed; the count stops at MaxWork
Counted(n) == IF n < MaxWork THEN n + 1 ELSE n

ParkedTree ==
    /\ tickets = <<>>
    /\ root = ""
    /\ full = FALSE
    /\ tpc = "off"
    /\ maxDepth = <<>>
    /\ subtreeDepth = <<>>
    /\ stack = <<>>
    /\ computed = {}
    /\ printed = {}
    /\ frames = <<>>
    /\ output = <<>>
    /\ work = NoWork

ParkedText ==
    /\ tkt = <<>>
    /\ text = <<>>
    /\ field = ""
    /\ value = <<>>
    /\ parsed = <<>>
    /\ xpc = "off"

NoList == [name |-> "none", limit |-> 0]

ParkedList ==
    /\ lop = NoList
    /\ lpc = "off"
    /\ recent = <<>>
    /\ pending = <<>>
    /\ listed = <<>>
    /\ lres = "none"

NoCmd ==
    [name |-> "none", id |-> "", force |-> FALSE, ok |-> FALSE, linked |-> {}, removed |-> {},
     out |-> <<>>, arg |-> ""]

ParkedCmd == ncmd = 0 /\ lastCmd = NoCmd

ParkedRest == ParkedText /\ ParkedList /\ ParkedCmd

\* a directory holding the files S, each a complete record
DirWith(S) ==
    /\ names = S
    /\ content = [n \in FileNames |-> IF n \in S THEN Format(1) ELSE <<>>]

\* ------------------------------------------------------------------------
\* Specification of ResolveID: one call on any directory
\* ------------------------------------------------------------------------
InitResolve ==
    /\ dirExists \in BOOLEAN
    /\ \E S \in SUBSET FileNames : (~dirExists => S = {}) /\ DirWith(S)
    /\ partial \in Partials
    /\ rpc = "stat"
    /\ rres = NoResult
    /\ ParkedProcs
    /\ ParkedTree
    /\ ParkedRest

\* ResolveID, first half: the exact match returns at once
ResolveStat ==
    /\ rpc = "stat"
    /\ IF ExactMatch(dirExists, names, partial)
       THEN rres' = Ok(partial) /\ rpc' = "done"
       ELSE rres' = rres /\ rpc' = "scan"
    /\ UNCHANGED <<partial, fsVars, procVars, treeVars, restVars>>

\* ResolveID, second half: scan the directory and classify the matches
ResolveScan ==
    /\ rpc = "scan"
    /\ rres' = ScanResult(dirExists, names, partial)
    /\ rpc' = "done"
    /\ UNCHANGED <<partial, fsVars, procVars, treeVars, restVars>>

NextResolve == ResolveStat \/ ResolveScan

SpecResolve == InitResolve /\ [][NextResolve]_vars

\* ------------------------------------------------------------------------
\* Store operations, one system call per step
\* ------------------------------------------------------------------------
UpdateOp(id, v) == [name |-> "Update", id |-> id, val |-> v, partial |-> <<>>]

UpdateFieldOp(p, v) == [name |-> "UpdateField", id |-> <<>>, val |-> v, partial |-> p]

\* the process returns from its operation with result r
Return(p, r) ==
    /\ pc' = [pc EXCEPT ![p] = "idle"]
    /\ op' = [op EXCEPT ![p] = NoOp]
    /\ ret' = [ret EXCEPT ![p] = r]
    /\ off' = [off EXCEPT ![p] = 0]
    /\ buf' = [buf EXCEPT ![p] = <<>>]

\* the open with O_EXCL: a temporary file that is already there is an error
OpenTmpExcl(p, next) ==
    LET tmp == TmpName(op[p].id)
    IN IF ~dirExists \/ tmp \in names
       THEN /\ Return(p, ErrIO)
            /\ UNCHANGED <<fsVars, fd, orph>>
       ELSE /\ names' = names \cup {tmp}
            /\ content' = [content EXCEPT ![tmp] = <<>>]
            /\ fd' = [fd EXCEPT ![p] = tmp]
            /\ off' = [off EXCEPT ![p] = 0]
            /\ pc' = [pc EXCEPT ![p] = next]
            /\ UNCHANGED <<dirExists, op, orph, buf, ret>>

\* os.Create / os.WriteFile's open of the temporary file: O_CREATE|O_TRUNC.
\* An existing file is truncated in place: a process that has it open keeps
\* writing into the same file.
OpenTmp(p, next) ==
    LET tmp == TmpName(op[p].id)
    IN IF ~dirExists
       THEN /\ Return(p, ErrIO)
            /\ UNCHANGED <<fsVars, fd, orph>>
       ELSE /\ names' = names \cup {tmp}
            /\ content' = [content EXCEPT ![tmp] = <<>>]
            /\ fd' = [fd EXCEPT ![p] = tmp]
            /\ off' = [off EXCEPT ![p] = 0]
            /\ pc' = [pc EXCEPT ![p] = next]
            /\ UNCHANGED <<dirExists, op, orph, buf, ret>>

\* one write call on the open file: the next chunk of buf at the file offset
WriteChunk(p, next) ==
    /\ IF fd[p] = Orphan
       THEN /\ orph' = [orph EXCEPT ![p] = WriteAt(orph[p], off[p], buf[p][off[p] + 1])]
            /\ content' = content
       ELSE /\ content' = [content EXCEPT ![fd[p]] = WriteAt(content[fd[p]], off[p], buf[p][off[p] + 1])]
            /\ orph' = orph
    /\ off' = [off EXCEPT ![p] = off[p] + 1]
    /\ pc' = [pc EXCEPT ![p] = IF off[p] + 1 >= Len(buf[p]) THEN next ELSE pc[p]]
    /\ UNCHANGED <<dirExists, names, op, fd, buf, ret>>

\* f.Close()
CloseFile(p, next) ==
    /\ fd' = [fd EXCEPT ![p] = NoFile]
    /\ orph' = [orph EXCEPT ![p] = <<>>]
    /\ pc' = [pc EXCEPT ![p] = next]
    /\ UNCHANGED <<fsVars, op, off, buf, ret>>

\* the name n stops pointing at its file: a process that has the file open
\* keeps it, without a name
Unlinked(fds, n) == [q \in Procs |-> IF fds[q] = n THEN Orphan ELSE fds[q]]

UnlinkedContent(n) == [q \in Procs |-> IF fd[q] = n THEN content[n] ELSE orph[q]]

\* os.Rename(tmpPath, path): atomically points path at the temporary file;
\* a process that has the temporary file open now writes into the file at
\* path. Fails when the temporary name is gone.
RenameTmp(p, r, cleanup) ==
    LET tmp == TmpName(op[p].id)
        path == CanonName(op[p].id)
    IN IF tmp \notin names
       THEN /\ pc' = [pc EXCEPT ![p] = cleanup]
            /\ UNCHANGED <<fsVars, op, fd, orph, off, buf, ret>>
       ELSE IF tmp = path
       THEN /\ Return(p, r)
            /\ UNCHANGED <<fsVars, fd, orph>>
       ELSE /\ names' = (names \ {tmp}) \cup {path}
            /\ content' = [content EXCEPT ![path] = content[tmp], ![tmp] = <<>>]
            /\ fd' = [q \in Procs |-> IF fd[q] = tmp THEN path ELSE Unlinked(fd, path)[q]]
            /\ orph' = UnlinkedContent(path)
            /\ Return(p, r)
            /\ UNCHANGED dirExists

\* os.Remove(tmpPath) on the error path, then return the error
RemoveTmp(p) ==
    LET tmp == TmpName(op[p].id)
    IN /\ names' = names \ {tmp}
       /\ content' = [content EXCEPT ![tmp] = <<>>]
       /\ fd' = Unlinked(fd, tmp)
       /\ orph' = UnlinkedContent(tmp)
       /\ Return(p, ErrIO)
       /\ UNCHANGED dirExists

\* --- FileStore.Update(t)
UpdateStart(p) ==
    /\ pc[p] = "idle"
    /\ started < MaxOps
    /\ started' = started + 1
    /\ \E id \in StoreIds, v \in Vals :
        /\ op' = [op EXCEPT ![p] = UpdateOp(id, v)]
        /\ buf' = [buf EXCEPT ![p] = Format(v)]
    /\ pc' = [pc EXCEPT ![p] = "up_create"]
    /\ ret' = [ret EXCEPT ![p] = NoResult]
    /\ UNCHANGED <<fsVars, fd, orph, off, resVars, treeVars, restVars>>

UpdateCreateTmp(p) ==
    /\ pc[p] = "up_create"
    /\ OpenTmp(p, "up_write")
    /\ UNCHANGED <<started, resVars, treeVars, restVars>>

UpdateWrite(p) ==
    /\ pc[p] = "up_write"
    /\ WriteChunk(p, "up_close")
    /\ UNCHANGED <<started, resVars, treeVars, restVars>>

\* Format fails: f.Close() here, os.Remove(tmpPath) next
UpdateWriteFail(p) ==
    /\ pc[p] = "up_write"
    /\ CloseFile(p, "up_remove")
    /\ UNCHANGED <<started, resVars, treeVars, restVars>>

UpdateClose(p) ==
    /\ pc[p] = "up_close"
    /\ CloseFile(p, "up_rename")
    /\ UNCHANGED <<started, resVars, treeVars, restVars>>

UpdateRename(p) ==
    /\ pc[p] = "up_rename"
    /\ RenameTmp(p, Ok(op[p].id), "up_remove")
    /\ UNCHANGED <<started, resVars, treeVars, restVars>>

\* os.Rename fails for a reason of the file system: nothing is renamed
UpdateRenameFail(p) ==
    /\ pc[p] = "up_rename"
    /\ pc' = [pc EXCEPT ![p] = "up_remove"]
    /\ UNCHANGED <<fsVars, op, fd, orph, off, buf, ret, started, resVars, treeVars, restVars>>

UpdateRemoveTmp(p) ==
    /\ pc[p] = "up_remove"
    /\ RemoveTmp(p)
    /\ UNCHANGED <<started, resVars, treeVars, restVars>>

\* --- FileStore.UpdateField(partial, field, value)
UpdateFieldStart(p) ==
    /\ pc[p] = "idle"
    /\ started < MaxOps
    /\ started' = started + 1
    /\ \E q \in StringsUpTo(MaxStorePartialLen), v \in Vals : op' = [op EXCEPT ![p] = UpdateFieldOp(q, v)]
    /\ pc' = [pc EXCEPT ![p] = "uf_stat"]
    /\ ret' = [ret EXCEPT ![p] = NoResult]
    /\ UNCHANGED <<fsVars, fd, orph, off, buf, resVars, treeVars, restVars>>

\* ResolveID, exact match
UpdateFieldStat(p) ==
    /\ pc[p] = "uf_stat"
    /\ IF ExactMatch(dirExists, names, op[p].partial)
       THEN /\ op' = [op EXCEPT ![p].id = op[p].partial]
            /\ pc' = [pc EXCEPT ![p] = "uf_read"]
       ELSE /\ op' = op
            /\ pc' = [pc EXCEPT ![p] = "uf_scan"]
    /\ UNCHANGED <<fsVars, fd, orph, off, buf, ret, started, resVars, treeVars, restVars>>

\* ResolveID, partial match; an error is returned to the caller
UpdateFieldScan(p) ==
    /\ pc[p] = "uf_scan"
    /\ LET r == ScanResult(dirExists, names, op[p].partial)
       IN IF r.kind = "ok"
          THEN /\ op' = [op EXCEPT ![p].id = r.id]
               /\ pc' = [pc EXCEPT ![p] = "uf_read"]
               /\ UNCHANGED <<off, buf, ret>>
          ELSE /\ Return(p, r)
    /\ UNCHANGED <<fsVars, fd, orph, started, resVars, treeVars, restVars>>

\* os.ReadFile(path), then ticket.UpdateField on what was read
UpdateFieldRead(p) ==
    /\ pc[p] = "uf_read"
    /\ LET path == CanonName(op[p].id)
       IN IF path \notin names
          THEN /\ Return(p, ErrIO)
          ELSE /\ buf' = [buf EXCEPT ![p] = UpdateFieldContent(content[path], op[p].val)]
               /\ pc' = [pc EXCEPT ![p] = "uf_create"]
               /\ UNCHANGED <<op, off, ret>>
    /\ UNCHANGED <<fsVars, fd, orph, started, resVars, treeVars, restVars>>

\* os.WriteFile(tmpPath, ...): open with O_CREATE|O_TRUNC
UpdateFieldCreateTmp(p) ==
    /\ pc[p] = "uf_create"
    /\ OpenTmp(p, IF Len(buf[p]) = 0 THEN "uf_close" ELSE "uf_write")
    /\ UNCHANGED <<started, resVars, treeVars, restVars>>

\* os.WriteFile: write
UpdateFieldWrite(p) ==
    /\ pc[p] = "uf_write"
    /\ WriteChunk(p, "uf_close")
    /\ UNCHANGED <<started, resVars, treeVars, restVars>>

\* os.WriteFile fails: it closes the file and UpdateField returns the error
UpdateFieldWriteFail(p) ==
    /\ pc[p] = "uf_write"
    /\ fd' = [fd EXCEPT ![p] = NoFile]
    /\ orph' = [orph EXCEPT ![p] = <<>>]
    /\ Return(p, ErrIO)
    /\ UNCHANGED <<fsVars, started, resVars, treeVars, restVars>>

\* os.WriteFile: close
UpdateFieldClose(p) ==
    /\ pc[p] = "uf_close"
    /\ CloseFile(p, "uf_rename")
    /\ UNCHANGED <<started, resVars, treeVars, restVars>>

UpdateFieldRename(p) ==
    /\ pc[p] = "uf_rename"
    /\ RenameTmp(p, Ok(op[p].id), "uf_remove")
    /\ UNCHANGED <<started, resVars, treeVars, restVars>>

\* os.Rename fails for a reason of the file system: nothing is renamed
UpdateFieldRenameFail(p) ==
    /\ pc[p] = "uf_rename"
    /\ pc' = [pc EXCEPT ![p] = "uf_remove"]
    /\ UNCHANGED <<fsVars, op, fd, orph, off, buf, ret, started, resVars, treeVars, restVars>>

UpdateFieldRemoveTmp(p) ==
    /\ pc[p] = "uf_remove"
    /\ RemoveTmp(p)
    /\ UNCHANGED <<started, resVars, treeVars, restVars>>

\* the process is killed in the middle of an operation: its open file is
\* closed by the kernel, nothing is cleaned up
Crash(p) ==
    /\ pc[p] \notin {"idle", "off"}
    /\ fd' = [fd EXCEPT ![p] = NoFile]
    /\ orph' = [orph EXCEPT ![p] = <<>>]
    /\ Return(p, NoResult)
    /\ UNCHANGED <<fsVars, started, resVars, treeVars, restVars>>

ProcStep(p) ==
    \/ UpdateStart(p)
    \/ UpdateCreateTmp(p)
    \/ UpdateWrite(p)
    \/ UpdateWriteFail(p)
    \/ UpdateClose(p)
    \/ UpdateRename(p)
    \/ UpdateRenameFail(p)
    \/ UpdateRemoveTmp(p)
    \/ UpdateFieldStart(p)
    \/ UpdateFieldStat(p)
    \/ UpdateFieldScan(p)
    \/ UpdateFieldRead(p)
    \/ UpdateFieldCreateTmp(p)
    \/ UpdateFieldWrite(p)
    \/ UpdateFieldWriteFail(p)
    \/ UpdateFieldClose(p)
    \/ UpdateFieldRename(p)
    \/ UpdateFieldRenameFail(p)
    \/ UpdateFieldRemoveTmp(p)

\* a store whose records were all created completely
InitStore(active) ==
    /\ dirExists \in BOOLEAN
    /\ \E S \in SUBSET StoreIds : (~dirExists => S = {}) /\ DirWith({CanonName(id) : id \in S})
    /\ pc = [p \in Procs |-> IF p \in active THEN "idle" ELSE "off"]
    /\ op = [p \in Procs |-> NoOp]
    /\ fd = [p \in Procs |-> NoFile]
    /\ orph = [p \in Procs |-> <<>>]
    /\ off = [p \in Procs |-> 0]
    /\ buf = [p \in Procs |-> <<>>]
    /\ ret = [p \in Procs |-> NoResult]
    /\ started = 0
    /\ ParkedRes
    /\ ParkedTree
    /\ ParkedRest

\* one process at a time, which may be killed at any step
InitCrash == InitStore({1})

NextCrash == ProcStep(1) \/ Crash(1)

SpecCrash == InitCrash /\ [][NextCrash]_vars

\* two processes running store operations concurrently
InitConc == InitStore(Procs)

NextConc == \E p \in Procs : ProcStep(p)

SpecConc == InitConc /\ [][NextConc]_vars

\* --- two processes, each mutating a record of its own
\* t.ID of the record process p mutates
Own(p) == IF p = 1 THEN <<"a">> ELSE <<"a", "b">>

\* the arguments that ResolveID resolves to the record id in a store holding ids
ResolvingTo(ids, id) ==
    {q \in StringsUpTo(MaxStorePartialLen + 1) :
        LET nm == {CanonName(i) : i \in ids}
        IN IF ExactMatch(TRUE, nm, q) THEN q = id ELSE ScanResult(TRUE, nm, q) = Ok(id)}

\* Update(t) with t.ID the process's own record
UpdateOwnStart(p) ==
    /\ pc[p] = "idle"
    /\ started < MaxOps
    /\ started' = started + 1
    /\ \E v \in Vals :
        /\ op' = [op EXCEPT ![p] = UpdateOp(Own(p), v)]
        /\ buf' = [buf EXCEPT ![p] = Format(v)]
    /\ pc' = [pc EXCEPT ![p] = "up_create"]
    /\ ret' = [ret EXCEPT ![p] = NoResult]
    /\ UNCHANGED <<fsVars, fd, orph, off, resVars, treeVars, restVars>>

\* UpdateField(partial, field, value) with partial naming the process's own record
UpdateFieldOwnStart(p) ==
    /\ pc[p] = "idle"
    /\ started < MaxOps
    /\ started' = started + 1
    /\ \E q \in ResolvingTo(StoreIds, Own(p)), v \in Vals :
        op' = [op EXCEPT ![p] = UpdateFieldOp(q, v)]
    /\ pc' = [pc EXCEPT ![p] = "uf_stat"]
    /\ ret' = [ret EXCEPT ![p] = NoResult]
    /\ UNCHANGED <<fsVars, fd, orph, off, buf, resVars, treeVars, restVars>>

\* the steps of both operations when no system call fails for a reason of
\* the file system
OwnStep(p) ==
    \/ UpdateOwnStart(p)
    \/ UpdateCreateTmp(p)
    \/ UpdateWrite(p)
    \/ UpdateClose(p)
    \/ UpdateRename(p)
    \/ UpdateFieldOwnStart(p)
    \/ UpdateFieldStat(p)
    \/ UpdateFieldScan(p)
    \/ UpdateFieldRead(p)
    \/ UpdateFieldCreateTmp(p)
    \/ UpdateFieldWrite(p)
    \/ UpdateFieldClose(p)
    \/ UpdateFieldRename(p)

InitDistinct ==
    /\ InitStore(Procs)
    /\ dirExists
    /\ names = {CanonName(id) : id \in StoreIds}

NextDistinct == \E p \in Procs : OwnStep(p)

SpecDistinct == InitDistinct /\ [][NextDistinct]_vars

\* --- FileStore.WriteRaw(id, content): os.WriteFile of the temporary file and
\* os.Rename, the steps UpdateField ends with
WriteRawOp(id, v) == [name |-> "WriteRaw", id |-> id, val |-> v, partial |-> <<>>]

WriteRawStart(p) ==
    /\ pc[p] = "idle"
    /\ started < MaxOps
    /\ started' = started + 1
    /\ \E id \in StoreIds, v \in Vals :
        /\ op' = [op EXCEPT ![p] = WriteRawOp(id, v)]
        /\ buf' = [buf EXCEPT ![p] = Format(v)]
    /\ pc' = [pc EXCEPT ![p] = "uf_create"]
    /\ ret' = [ret EXCEPT ![p] = NoResult]
    /\ UNCHANGED <<fsVars, fd, orph, off, resVars, treeVars, restVars>>

\* one process running one operation after the other, never killed
NextSolo == ProcStep(1) \/ WriteRawStart(1)

SpecSolo == InitCrash /\ [][NextSolo]_vars

\* --- an operation on the record ab is killed; later another process runs
\* an operation on the same record, named in full or by the partial b
\* Update(t) with t.ID = id
UpdateStartOn(p, id) ==
    /\ pc[p] = "idle"
    /\ started' = started + 1
    /\ \E v \in Vals :
        /\ op' = [op EXCEPT ![p] = UpdateOp(id, v)]
        /\ buf' = [buf EXCEPT ![p] = Format(v)]
    /\ pc' = [pc EXCEPT ![p] = "up_create"]
    /\ ret' = [ret EXCEPT ![p] = NoResult]
    /\ UNCHANGED <<fsVars, fd, orph, off, resVars, treeVars, restVars>>

\* UpdateField(partial, field, value) with partial naming the record id
UpdateFieldStartOn(p, id) ==
    /\ pc[p] = "idle"
    /\ started' = started + 1
    /\ \E q \in ResolvingTo(StoreIds, id), v \in Vals :
        op' = [op EXCEPT ![p] = UpdateFieldOp(q, v)]
    /\ pc' = [pc EXCEPT ![p] = "uf_stat"]
    /\ ret' = [ret EXCEPT ![p] = NoResult]
    /\ UNCHANGED <<fsVars, fd, orph, off, buf, resVars, treeVars, restVars>>

\* the steps after the start, when no system call fails for a reason of the
\* file system
RunStep(p) ==
    \/ UpdateCreateTmp(p)
    \/ UpdateWrite(p)
    \/ UpdateClose(p)
    \/ UpdateRename(p)
    \/ UpdateFieldStat(p)
    \/ UpdateFieldScan(p)
    \/ UpdateFieldRead(p)
    \/ UpdateFieldCreateTmp(p)
    \/ UpdateFieldWrite(p)
    \/ UpdateFieldClose(p)
    \/ UpdateFieldRename(p)

\* process 1 started an operation and was killed in it
Killed == started >= 1 /\ pc[1] = "idle" /\ ret[1] = NoResult

\* the first operation, which may be killed at any step
FirstStart == started = 0 /\ (UpdateStartOn(1, <<"a", "b">>) \/ UpdateFieldStartOn(1, <<"a", "b">>))

\* the later operation on the same record
LaterStart == Killed /\ started = 1 /\ (UpdateStartOn(2, <<"a", "b">>) \/ UpdateFieldStartOn(2, <<"a", "b">>))

NextRecover ==
    \/ FirstStart
    \/ RunStep(1)
    \/ Crash(1)
    \/ LaterStart
    \/ RunStep(2)

\* a store that holds the record ab, and maybe a
InitRecover ==
    /\ InitStore(Procs)
    /\ dirExists
    /\ CanonName(<<"a", "b">>) \in names

SpecRecover == InitRecover /\ [][NextRecover]_vars

\* --- the new command: runNew, which calls Get and then FileStore.Create
\* maxRetries := 10
MaxRetries == 10

\* a running new: id is the generated ID, partial the ID Get resolved it
\* to, try the loop index i
NewOp(id, v, i) == [name |-> "new", id |-> id, val |-> v, partial |-> <<>>, try |-> i]

NewStart(p) ==
    /\ pc[p] = "idle"
    /\ started < MaxOps
    /\ started' = started + 1
    /\ \E v \in Vals :
        /\ op' = [op EXCEPT ![p] = NewOp(<<>>, v, 0)]
        /\ buf' = [buf EXCEPT ![p] = Format(v)]
    /\ pc' = [pc EXCEPT ![p] = "new_gen"]
    /\ ret' = [ret EXCEPT ![p] = NoResult]
    /\ UNCHANGED <<fsVars, fd, orph, off, resVars, treeVars, restVars>>

\* id = ticket.GenerateID(cwd): the prefix of the directory and four random
\* characters
NewGenerate(p) ==
    /\ pc[p] = "new_gen"
    /\ \E id \in StoreIds : op' = [op EXCEPT ![p].id = id]
    /\ pc' = [pc EXCEPT ![p] = "new_stat"]
    /\ UNCHANGED <<fsVars, fd, orph, off, buf, ret, started, resVars, treeVars, restVars>>

\* store.Get(id), ResolveID's exact match
NewStat(p) ==
    /\ pc[p] = "new_stat"
    /\ IF ExactMatch(dirExists, names, op[p].id)
       THEN /\ op' = [op EXCEPT ![p].partial = op[p].id]
            /\ pc' = [pc EXCEPT ![p] = "new_read"]
       ELSE /\ op' = op
            /\ pc' = [pc EXCEPT ![p] = "new_scan"]
    /\ UNCHANGED <<fsVars, fd, orph, off, buf, ret, started, resVars, treeVars, restVars>>

\* store.Get(id), ResolveID's scan: an error of Get ends the loop, "ID
\* doesn't exist, we can use it"
NewScan(p) ==
    /\ pc[p] = "new_scan"
    /\ LET r == ScanResult(dirExists, names, op[p].id)
       IN IF r.kind = "ok"
          THEN /\ op' = [op EXCEPT ![p].partial = r.id]
               /\ pc' = [pc EXCEPT ![p] = "new_read"]
          ELSE /\ op' = op
               /\ pc' = [pc EXCEPT ![p] = "new_mkdir"]
    /\ UNCHANGED <<fsVars, fd, orph, off, buf, ret, started, resVars, treeVars, restVars>>

\* store.Get(id), readTicket: when the file opens, Parse returns a ticket
\* and the loop goes on, or gives up on its last turn
NewRead(p) ==
    /\ pc[p] = "new_read"
    /\ IF CanonName(op[p].partial) \notin names
       THEN /\ pc' = [pc EXCEPT ![p] = "new_mkdir"]
            /\ UNCHANGED <<op, off, buf, ret>>
       ELSE IF op[p].try = MaxRetries - 1
       THEN Return(p, ErrIO)
       ELSE /\ op' = [op EXCEPT ![p].try = op[p].try + 1]
            /\ pc' = [pc EXCEPT ![p] = "new_gen"]
            /\ UNCHANGED <<off, buf, ret>>
    /\ UNCHANGED <<fsVars, fd, orph, started, resVars, treeVars, restVars>>

\* FileStore.Create: s.EnsureDir()
NewEnsureDir(p) ==
    /\ pc[p] = "new_mkdir"
    /\ dirExists' = TRUE
    /\ pc' = [pc EXCEPT ![p] = "new_create"]
    /\ UNCHANGED <<names, content, op, fd, orph, off, buf, ret, started, resVars, treeVars, restVars>>

\* FileStore.Create: os.Create(path), O_CREATE|O_TRUNC on the record file
NewCreate(p) ==
    /\ pc[p] = "new_create"
    /\ LET path == CanonName(op[p].id)
       IN IF ~dirExists
          THEN /\ Return(p, ErrIO)
               /\ UNCHANGED <<fsVars, fd, orph>>
          ELSE /\ names' = names \cup {path}
               /\ content' = [content EXCEPT ![path] = <<>>]
               /\ fd' = [fd EXCEPT ![p] = path]
               /\ off' = [off EXCEPT ![p] = 0]
               /\ pc' = [pc EXCEPT ![p] = "new_write"]
               /\ UNCHANGED <<dirExists, op, orph, buf, ret>>
    /\ UNCHANGED <<started, resVars, treeVars, restVars>>

\* FileStore.Create: Format(f, t)
NewWrite(p) ==
    /\ pc[p] = "new_write"
    /\ WriteChunk(p, "new_close")
    /\ UNCHANGED <<started, resVars, treeVars, restVars>>

\* FileStore.Create: the deferred f.Close(); runNew prints the ID
NewClose(p) ==
    /\ pc[p] = "new_close"
    /\ fd' = [fd EXCEPT ![p] = NoFile]
    /\ orph' = [orph EXCEPT ![p] = <<>>]
    /\ Return(p, Ok(op[p].id))
    /\ UNCHANGED <<fsVars, started, resVars, treeVars, restVars>>

NewStep(p) ==
    \/ NewStart(p)
    \/ NewGenerate(p)
    \/ NewStat(p)
    \/ NewScan(p)
    \/ NewRead(p)
    \/ NewEnsureDir(p)
    \/ NewCreate(p)
    \/ NewWrite(p)
    \/ NewClose(p)

\* new commands, run one after the other or at the same time by two
\* processes
NextNew == \E p \in Procs : NewStep(p)

SpecNew == InitConc /\ [][NextNew]_vars

\* ------------------------------------------------------------------------
\* The text of a record file: ticket.Format, ticket.Parse, ticket.UpdateField
\* ------------------------------------------------------------------------
\* A line is a sequence of tokens; a string of several lines is a sequence
\* of lines (joined by "\n"), the empty string being <<>>.
Tok(k, s, a, n) == [k |-> k, s |-> s, a |-> a, n |-> n]

Sp == Tok("sp", "", <<>>, 0)

Hash == Tok("hash", "", <<>>, 0)

Dashes == Tok("dashes", "", <<>>, 0)

\* "name:" at the start of a line
Key(name) == Tok("key", name, <<>>, 0)

Word(w) == Tok("word", w, <<>>, 0)

\* "$x": a reference that regexp's Expand resolves
Dollar == Tok("dollar", "", <<>>, 0)

\* "[a, b]"
Arr(a) == Tok("arr", "", a, 0)

Num(n) == Tok("int", "", <<>>, n)

\* "2006-01-02T15:04:05Z": a time printed to the second
Time(sec) == Tok("time", "", <<>>, sec)

\* a []string: nil or not
Slice(e) == [nil |-> FALSE, e |-> e]

NilSlice == [nil |-> TRUE, e |-> <<>>]

\* a time.Time
Instant(sec, nsec) == [sec |-> sec, nsec |-> nsec]

ZeroTime == Instant(0, 0)

\* a string of one word, or the empty string
Str(w) == IF w = "" THEN <<>> ELSE <<Word(w)>>

\* formatArray(arr)
formatArray(arr) == Arr(arr.e)

\* fmt.Sprintf("%s: %s\n", name, val)
FieldLine(name, val) == <<Key(name), Sp>> \o val

\* strings.HasSuffix(t.Body, "\n")
EndsInNewline(body) == Len(body) >= 2 /\ body[Len(body)] = <<>>

\* ticket.Format(w, t): the lines written
FormatText(t) ==
    <<  <<Dashes>>,
        FieldLine("id", t.ID),
        FieldLine("status", t.Status),
        FieldLine("deps", <<formatArray(t.Deps)>>),
        FieldLine("links", <<formatArray(t.Links)>>),
        FieldLine("created", <<Time(t.Created.sec)>>),
        FieldLine("type", t.Type),
        FieldLine("priority", <<Num(t.Priority)>>) >>
    \o (IF t.Assignee # <<>> THEN <<FieldLine("assignee", t.Assignee)>> ELSE <<>>)
    \o (IF t.ExternalRef # <<>> THEN <<FieldLine("external-ref", t.ExternalRef)>> ELSE <<>>)
    \o (IF t.Parent # <<>> THEN <<FieldLine("parent", t.Parent)>> ELSE <<>>)
    \o << <<Dashes>>, <<Hash, Sp>> \o t.Title >>
    \o (IF t.Body # <<>>
        THEN << <<>> >> \o (IF EndsInNewline(t.Body) THEN SubSeq(t.Body, 1, Len(t.Body) - 1) ELSE t.Body)
        ELSE <<>>)

\* strings.TrimSpace of one line
RECURSIVE TrimLeft(_)
TrimLeft(l) == IF l # <<>> /\ Head(l) = Sp THEN TrimLeft(Tail(l)) ELSE l

RECURSIVE TrimRight(_)
TrimRight(l) == IF l # <<>> /\ l[Len(l)] = Sp THEN TrimRight(SubSeq(l, 1, Len(l) - 1)) ELSE l

TrimLine(l) == TrimRight(TrimLeft(l))

\* strings.TrimSpace of a string of several lines: newlines are white space
RECURSIVE TrimHeadLines(_)
TrimHeadLines(b) ==
    IF b = <<>> THEN <<>>
    ELSE IF TrimLeft(Head(b)) = <<>> THEN TrimHeadLines(Tail(b))
    ELSE <<TrimLeft(Head(b))>> \o Tail(b)

RECURSIVE TrimTailLines(_)
TrimTailLines(b) ==
    IF b = <<>> THEN <<>>
    ELSE IF TrimRight(b[Len(b)]) = <<>> THEN TrimTailLines(SubSeq(b, 1, Len(b) - 1))
    ELSE SubSeq(b, 1, Len(b) - 1) \o <<TrimRight(b[Len(b)])>>

TrimSpace(b) == TrimTailLines(TrimHeadLines(b))

\* the scanner loop of Parse: lines before the first "---" are dropped, the
\* lines up to the second "---" are the frontmatter, the rest is the body
RECURSIVE ScanLines(_, _)
ScanLines(lines, acc) ==
    IF lines = <<>> THEN acc
    ELSE LET l == Head(lines)
         IN IF l = <<Dashes>> /\ ~acc.found
            THEN ScanLines(Tail(lines), [acc EXCEPT !.found = TRUE, !.inFm = TRUE])
            ELSE IF l = <<Dashes>> /\ acc.inFm
            THEN ScanLines(Tail(lines), [acc EXCEPT !.inFm = FALSE, !.done = TRUE])
            ELSE IF acc.inFm
            THEN ScanLines(Tail(lines), [acc EXCEPT !.fm = Append(acc.fm, l)])
            ELSE IF acc.done
            THEN ScanLines(Tail(lines), [acc EXCEPT !.body = Append(acc.body, l)])
            ELSE ScanLines(Tail(lines), acc)

Scanned(lines) ==
    ScanLines(lines, [found |-> FALSE, inFm |-> FALSE, done |-> FALSE, fm |-> <<>>, body |-> <<>>])

\* --- yaml.Unmarshal of the frontmatter lines into the frontmatter struct
IsBlank(l) == TrimLeft(l) = <<>>

IsComment(l) == l # <<>> /\ l[1] = Hash

IsMapping(l) == l # <<>> /\ l[1].k = "key" /\ (Len(l) = 1 \/ l[2] = Sp)

LinesOfKey(fm, name) == {i \in 1..Len(fm) : IsMapping(fm[i]) /\ fm[i][1].s = name}

\* the scalar or sequence after "name:", without the white space around it
YamlValue(fm, name) ==
    IF LinesOfKey(fm, name) = {} THEN <<>>
    ELSE TrimLine(Tail(fm[CHOOSE i \in LinesOfKey(fm, name) : TRUE]))

HasArr(v) == \E i \in 1..Len(v) : v[i].k = "arr"

StringOk(v) == ~HasArr(v)

SliceOk(v) == v = <<>> \/ (Len(v) = 1 /\ v[1].k = "arr")

IntOk(v) == v = <<>> \/ (Len(v) = 1 /\ v[1].k = "int")

StringFields == {"id", "status", "created", "type", "assignee", "external-ref", "parent"}

YamlOk(fm) ==
    /\ \A i \in 1..Len(fm) : IsBlank(fm[i]) \/ IsComment(fm[i]) \/ IsMapping(fm[i])
    /\ \A i, j \in 1..Len(fm) :
        (IsMapping(fm[i]) /\ IsMapping(fm[j]) /\ fm[i][1].s = fm[j][1].s) => i = j
    /\ \A name \in StringFields : StringOk(YamlValue(fm, name))
    /\ SliceOk(YamlValue(fm, "deps"))
    /\ SliceOk(YamlValue(fm, "links"))
    /\ IntOk(YamlValue(fm, "priority"))

\* a nil slice is replaced by an empty one
SliceOf(v) == IF v = <<>> THEN Slice(<<>>) ELSE Slice(v[1].a)

IntOf(v) == IF v = <<>> THEN 0 ELSE v[1].n

\* time.Parse(time.RFC3339, fm.Created), the zero time when it fails
TimeOf(v) == IF Len(v) = 1 /\ v[1].k = "time" THEN Instant(v[1].n, 0) ELSE ZeroTime

\* the title: the first "# " heading, unless other text comes before it
HasHeading(l) == Len(TrimLine(l)) >= 2 /\ TrimLine(l)[1] = Hash /\ TrimLine(l)[2] = Sp

RECURSIVE TitleLine(_, _)
TitleLine(body, i) ==
    IF i > Len(body) THEN 0
    ELSE IF HasHeading(body[i]) THEN i
    ELSE IF TrimLine(body[i]) # <<>> THEN 0
    ELSE TitleLine(body, i + 1)

ZeroTicket ==
    [ID |-> <<>>, Status |-> <<>>, Deps |-> NilSlice, Links |-> NilSlice, Created |-> ZeroTime,
     Type |-> <<>>, Priority |-> 0, Assignee |-> <<>>, ExternalRef |-> <<>>, Parent |-> <<>>,
     Title |-> <<>>, Body |-> <<>>]

ParseError == [err |-> TRUE, t |-> ZeroTicket]

\* ticket.Parse(r)
Parse(lines) ==
    LET sc == Scanned(lines)
        fm == sc.fm
        ti == TitleLine(sc.body, 1)
    IN IF ~YamlOk(fm) THEN ParseError
       ELSE [err |-> FALSE,
             t |-> [ID |-> YamlValue(fm, "id"),
                    Status |-> YamlValue(fm, "status"),
                    Deps |-> SliceOf(YamlValue(fm, "deps")),
                    Links |-> SliceOf(YamlValue(fm, "links")),
                    Created |-> TimeOf(YamlValue(fm, "created")),
                    Type |-> YamlValue(fm, "type"),
                    Priority |-> IntOf(YamlValue(fm, "priority")),
                    Assignee |-> YamlValue(fm, "assignee"),
                    ExternalRef |-> YamlValue(fm, "external-ref"),
                    Parent |-> YamlValue(fm, "parent"),
                    Title |-> IF ti = 0 THEN <<>> ELSE SubSeq(TrimLine(sc.body[ti]), 3, Len(TrimLine(sc.body[ti]))),
                    Body |-> TrimSpace(SubSeq(sc.body, ti + 1, Len(sc.body)))]]

\* --- ticket.UpdateField(content, field, value)
\* the pattern (?m)^field:.*$ matches a line
MatchesField(l, name) == l # <<>> /\ l[1] = Key(name)

\* ReplaceAllString expands the "$" references of the replacement; the
\* pattern has no groups, so each one expands to nothing
RECURSIVE Expand(_)
Expand(v) ==
    IF v = <<>> THEN <<>>
    ELSE IF Head(v) = Dollar THEN Expand(Tail(v))
    ELSE <<Head(v)>> \o Expand(Tail(v))

RECURSIVE InsertAfterDelim(_, _)
InsertAfterDelim(lines, newLine) ==
    IF lines = <<>> THEN <<>>
    ELSE IF Head(lines) = <<Dashes>> THEN <<Head(lines), newLine>> \o Tail(lines)
    ELSE <<Head(lines)>> \o InsertAfterDelim(Tail(lines), newLine)

UpdateFieldText(c, name, v) ==
    IF \E i \in 1..Len(c) : MatchesField(c[i], name)
    THEN [i \in 1..Len(c) |-> IF MatchesField(c[i], name) THEN FieldLine(name, Expand(v)) ELSE c[i]]
    ELSE InsertAfterDelim(c, FieldLine(name, v))

\* --- one record: Create, then UpdateField, then Get
\* lines of body text: a blank line, plain text, text that reads "status: x"
BodyLineSet == {<<>>, <<Word("x")>>, FieldLine("status", Str("x"))}

RECURSIVE LinesUpTo(_)
LinesUpTo(n) ==
    IF n = 0 THEN {<<>>}
    ELSE LinesUpTo(n - 1) \cup {Append(b, l) : b \in LinesUpTo(n - 1), l \in BodyLineSet}

\* the strings of at most MaxBodyLines lines; <<>> is the empty string
Bodies == LinesUpTo(MaxBodyLines) \ {<< <<>> >>}

Titles == {<<>>, <<Word("T")>>, <<Word("T"), Sp>>}

\* the Tickets handed to Create; runNew stamps Created with time.Now().UTC()
SampleTickets ==
    [ID : {Str("a")}, Status : {Str("open")}, Deps : {NilSlice, Slice(<<>>), Slice(<<"b">>)},
     Links : {Slice(<<>>)}, Created : {Instant(1, 0), Instant(1, 1)}, Type : {Str("task")},
     Priority : {2}, Assignee : {<<>>}, ExternalRef : {<<>>}, Parent : {<<>>, Str("p")},
     Title : Titles, Body : Bodies]

\* the field and value arguments of UpdateField
UpdateFields == {"id", "status", "deps", "links", "parent"}

UpdateValues == {<<>>, Str("closed"), <<Arr(<<"c">>)>>, <<Word("c"), Dollar>>}

InitRecord ==
    /\ tkt \in SampleTickets
    /\ text = <<>>
    /\ field = ""
    /\ value = <<>>
    /\ parsed = <<>>
    /\ xpc = "create"
    /\ dirExists = TRUE
    /\ DirWith({})
    /\ ParkedRes
    /\ ParkedProcs
    /\ ParkedTree
    /\ ParkedList
    /\ ParkedCmd

\* FileStore.Create(t): the record file holds Format's output
CreateRecord ==
    /\ xpc = "create"
    /\ text' = FormatText(tkt)
    /\ xpc' = "created"
    /\ UNCHANGED <<tkt, field, value, parsed, fsVars, resVars, procVars, treeVars, listVars, cmdVars>>

\* FileStore.Update(t) of the same record: the file is replaced by Format's output
UpdateRecord ==
    /\ xpc = "created"
    /\ \E t \in SampleTickets :
        /\ t.ID = tkt.ID
        /\ tkt' = t
        /\ text' = FormatText(t)
    /\ xpc' = "replaced"
    /\ UNCHANGED <<field, value, parsed, fsVars, resVars, procVars, treeVars, listVars, cmdVars>>

\* FileStore.UpdateField(id, field, value): the file is replaced by the patched text
UpdateFieldRecord ==
    /\ xpc \in {"created", "replaced"}
    /\ \E f \in UpdateFields, v \in UpdateValues :
        /\ field' = f
        /\ value' = v
        /\ text' = UpdateFieldText(text, f, v)
    /\ xpc' = "updated"
    /\ UNCHANGED <<tkt, parsed, fsVars, resVars, procVars, treeVars, listVars, cmdVars>>

\* FileStore.Get(id): readTicket parses the file
GetRecord ==
    /\ xpc \in {"created", "replaced", "updated"}
    /\ parsed' = Parse(text)
    /\ xpc' = IF xpc = "created" THEN "got" ELSE "gotUpdated"
    /\ UNCHANGED <<tkt, text, field, value, fsVars, resVars, procVars, treeVars, listVars, cmdVars>>

NextRecord == CreateRecord \/ UpdateRecord \/ UpdateFieldRecord \/ GetRecord

SpecRecord == InitRecord /\ [][NextRecord]_vars

\* ------------------------------------------------------------------------
\* Reading the store: List, ListByModTime, ResolveID
\* ------------------------------------------------------------------------
\* the ID as it is written inside a record file
IdWord(id) == IF id = <<"a">> THEN "a" ELSE IF id = <<"a", "b">> THEN "ab" ELSE "bab"

\* a record as runNew creates it
TicketOf(id) ==
    [ZeroTicket EXCEPT !.ID = Str(IdWord(id)), !.Status = Str("open"), !.Deps = Slice(<<>>),
                       !.Links = Slice(<<>>), !.Created = Instant(1, 0), !.Type = Str("task"),
                       !.Priority = 2, !.Title = <<Word("T")>>]

GoodText(id) == FormatText(TicketOf(id))

\* a frontmatter that is not a YAML mapping
NotYaml == << <<Dashes>>, <<Word("x")>>, <<Dashes>> >>

\* a frontmatter whose deps is a scalar
BadDeps(id) == UpdateFieldText(GoodText(id), "deps", Str("x"))

FileChoices == {"absent", "good", "empty", "notyaml", "baddeps"}

TextOf(ch, id) ==
    IF ch = "good" THEN GoodText(id)
    ELSE IF ch = "notyaml" THEN NotYaml
    ELSE IF ch = "baddeps" THEN BadDeps(id)
    ELSE <<>>

\* the orders in which the files of S may have been modified
Perms(S) == {q \in [1..Cardinality(S) -> S] : \A i, j \in 1..Cardinality(S) : q[i] = q[j] => i = j}

ListOp == [name |-> "List", limit |-> 0]

ListByModTimeOp(limit) == [name |-> "ListByModTime", limit |-> limit]

ResolveOp == [name |-> "ResolveID", limit |-> 0]

InitRead ==
    /\ dirExists \in BOOLEAN
    /\ \E ch \in [Ids -> FileChoices], tmp \in BOOLEAN :
        /\ ~dirExists => (tmp = FALSE /\ \A id \in Ids : ch[id] = "absent")
        /\ names = {CanonName(id) : id \in {i \in Ids : ch[i] # "absent"}}
                   \cup (IF tmp THEN {TmpName(<<"a">>)} ELSE {})
        /\ content = [n \in FileNames |-> IF HasSuffixMd(n) THEN TextOf(ch[n[1]], n[1]) ELSE <<>>]
    /\ lop \in {ListOp, ResolveOp} \cup {ListByModTimeOp(l) : l \in 0..MaxLimit}
    /\ partial \in IF lop = ResolveOp THEN Partials ELSE {<<>>}
    /\ rpc = IF lop = ResolveOp THEN "stat" ELSE "off"
    /\ rres = NoResult
    /\ lpc = IF lop = ResolveOp THEN "off" ELSE "readdir"
    /\ recent \in IF lop.name = "ListByModTime" THEN Perms({n \in names : HasSuffixMd(n)}) ELSE {<<>>}
    /\ pending = <<>>
    /\ listed = <<>>
    /\ lres = "none"
    /\ ParkedProcs
    /\ ParkedTree
    /\ ParkedText
    /\ ParkedCmd

\* s.readTicket(path): os.Open, then Parse
readTicket(nm, c, n) == IF n \notin nm THEN ParseError ELSE Parse(c[n])

CollectAll(acc, r) == Append(acc, r.t)

\* a file that fails to parse is skipped
Collect(acc, r) == IF r.err THEN acc ELSE Append(acc, r.t)

\* os.ReadDir(s.dir) of List and ListByModTime: a missing directory is an
\* empty result
ReadDirOrEmpty(files) ==
    IF ~dirExists
    THEN /\ lres' = "ok"
         /\ lpc' = "done"
         /\ UNCHANGED pending
    ELSE /\ pending' = files
         /\ lpc' = "loop"
         /\ UNCHANGED lres

ListReadDir ==
    /\ lop.name = "List"
    /\ lpc = "readdir"
    /\ ReadDirOrEmpty(ReadDir(names))
    /\ UNCHANGED <<lop, recent, listed, textVars, fsVars, resVars, procVars, treeVars, cmdVars>>

\* one turn of List's loop
ListReadTicket ==
    /\ lop.name = "List"
    /\ lpc = "loop"
    /\ pending # <<>>
    /\ listed' = IF HasSuffixMd(Head(pending))
                 THEN Collect(listed, readTicket(names, content, Head(pending)))
                 ELSE listed
    /\ pending' = Tail(pending)
    /\ UNCHANGED <<lop, lpc, recent, lres, textVars, fsVars, resVars, procVars, treeVars, cmdVars>>

ListReturn ==
    /\ lop.name = "List"
    /\ lpc = "loop"
    /\ pending = <<>>
    /\ lres' = "ok"
    /\ lpc' = "done"
    /\ UNCHANGED <<lop, recent, pending, listed, textVars, fsVars, resVars, procVars, treeVars, cmdVars>>

\* ListByModTime: ReadDir, entry.Info of the record files, sort by modTime descending
ModTimeReadDir ==
    /\ lop.name = "ListByModTime"
    /\ lpc = "readdir"
    /\ ReadDirOrEmpty(SelectSeq(recent, LAMBDA n : n \in names /\ HasSuffixMd(n)))
    /\ UNCHANGED <<lop, recent, listed, textVars, fsVars, resVars, procVars, treeVars, cmdVars>>

LimitReached == lop.limit > 0 /\ Len(listed) >= lop.limit

ModTimeReadTicket ==
    /\ lop.name = "ListByModTime"
    /\ lpc = "loop"
    /\ pending # <<>>
    /\ ~LimitReached
    /\ listed' = Collect(listed, readTicket(names, content, Head(pending)))
    /\ pending' = Tail(pending)
    /\ UNCHANGED <<lop, lpc, recent, lres, textVars, fsVars, resVars, procVars, treeVars, cmdVars>>

ModTimeReturn ==
    /\ lop.name = "ListByModTime"
    /\ lpc = "loop"
    /\ pending = <<>> \/ LimitReached
    /\ lres' = "ok"
    /\ lpc' = "done"
    /\ UNCHANGED <<lop, recent, pending, listed, textVars, fsVars, resVars, procVars, treeVars, cmdVars>>

NextRead ==
    \/ ListReadDir
    \/ ListReadTicket
    \/ ListReturn
    \/ ModTimeReadDir
    \/ ModTimeReadTicket
    \/ ModTimeReturn
    \/ ResolveStat
    \/ ResolveScan

SpecRead == InitRead /\ [][NextRead]_vars

\* --- FileStore.Create of one record while another process reads the store
GetOp == [name |-> "Get", limit |-> 0]

\* the record being created
NewName == CanonName(<<"a">>)

\* the tickets handed to Create
CreatedTickets ==
    {TicketOf(<<"a">>), [TicketOf(<<"a">>) EXCEPT !.Body = << <<Word("x")>> >>]}

\* a store holding the record ab or nothing; one process is about to call
\* Create, another starts Get("a") or List
InitCreateRead ==
    /\ dirExists \in BOOLEAN
    /\ names \in {{}, {CanonName(<<"a", "b">>)}}
    /\ ~dirExists => names = {}
    /\ content = [n \in FileNames |-> IF n \in names THEN GoodText(n[1]) ELSE <<>>]
    /\ tkt \in CreatedTickets
    /\ text = <<>>
    /\ field = ""
    /\ value = <<>>
    /\ parsed = <<>>
    /\ xpc = "mkdir"
    /\ lop \in {ListOp, GetOp}
    /\ partial = IF lop = GetOp THEN <<"a">> ELSE <<>>
    /\ rpc = IF lop = GetOp THEN "stat" ELSE "off"
    /\ rres = NoResult
    /\ lpc = IF lop = GetOp THEN "get" ELSE "readdir"
    /\ recent = <<>>
    /\ pending = <<>>
    /\ listed = <<>>
    /\ lres = "none"
    /\ ParkedProcs
    /\ ParkedTree
    /\ ParkedCmd

\* s.EnsureDir()
CreateEnsureDir ==
    /\ xpc = "mkdir"
    /\ dirExists' = TRUE
    /\ xpc' = "open"
    /\ UNCHANGED <<names, content, tkt, text, field, value, parsed>>
    /\ UNCHANGED <<resVars, procVars, treeVars, listVars, cmdVars>>

\* os.Create(path): the file is there and empty
CreateOpen ==
    /\ xpc = "open"
    /\ names' = names \cup {NewName}
    /\ content' = [content EXCEPT ![NewName] = <<>>]
    /\ xpc' = "write"
    /\ UNCHANGED <<dirExists, tkt, text, field, value, parsed>>
    /\ UNCHANGED <<resVars, procVars, treeVars, listVars, cmdVars>>

\* Format(f, t): the one Write of the whole buffer
CreateWrite ==
    /\ xpc = "write"
    /\ content' = [content EXCEPT ![NewName] = FormatText(tkt)]
    /\ xpc' = "close"
    /\ UNCHANGED <<dirExists, names, tkt, text, field, value, parsed>>
    /\ UNCHANGED <<resVars, procVars, treeVars, listVars, cmdVars>>

\* the deferred f.Close(), return nil
CreateClose ==
    /\ xpc = "close"
    /\ xpc' = "created"
    /\ UNCHANGED <<fsVars, tkt, text, field, value, parsed>>
    /\ UNCHANGED <<resVars, procVars, treeVars, listVars, cmdVars>>

\* FileStore.Get(partial) once ResolveID has returned: the error of
\* ResolveID, or readTicket of the resolved path
GetRead ==
    /\ lop = GetOp
    /\ lpc = "get"
    /\ rpc = "done"
    /\ LET r == IF rres.kind = "ok" THEN readTicket(names, content, CanonName(rres.id))
                ELSE ParseError
       IN /\ listed' = Collect(listed, r)
          /\ lres' = IF r.err THEN "err" ELSE "ok"
    /\ lpc' = "done"
    /\ UNCHANGED <<lop, recent, pending, textVars, fsVars, resVars, procVars, treeVars, cmdVars>>

NextCreateRead ==
    \/ CreateEnsureDir
    \/ CreateOpen
    \/ CreateWrite
    \/ CreateClose
    \/ ResolveStat
    \/ ResolveScan
    \/ GetRead
    \/ ListReadDir
    \/ ListReadTicket
    \/ ListReturn

SpecCreateRead == InitCreateRead /\ [][NextCreateRead]_vars

\* ------------------------------------------------------------------------
\* The closed command: ListByModTime(100), then the closed tickets up to
\* --limit
\* ------------------------------------------------------------------------
\* the argument runClosed gives to ListByModTime
FetchLimit == 100

\* the default of --limit
DefaultLimit == 20

\* a record file of the directory: its ticket's ID, here its rank in the
\* order of modification times (1 is the most recent), and its status
FileOf(i, status) == [ID |-> i, Status |-> Str(status)]

\* the first n elements of q
FirstN(q, n) == SubSeq(q, 1, IF n < Len(q) THEN n ELSE Len(q))

\* ListByModTime(limit) on files that all parse: the loop stops once limit
\* tickets are collected, 0 or less means no limit
ListByModTimeOf(files, limit) == IF limit > 0 THEN FirstN(files, limit) ELSE files

\* the statuses runClosed prints
PrintedStatuses == {Str("closed"), Str("done")}

\* the IDs runClosed prints: the loop breaks once count >= closedLimit
runClosed(files, closedLimit) ==
    LET fetched == ListByModTimeOf(files, FetchLimit)
        shown == SelectSeq(fetched, LAMBDA t : t.Status \in PrintedStatuses)
        out == IF closedLimit > 0 THEN FirstN(shown, closedLimit) ELSE <<>>
    IN [i \in 1..Len(out) |-> out[i].ID]

\* the statuses of the least recently modified files
Tails ==
    {<<"closed">>, <<"closed", "closed">>, <<"done", "closed">>,
     <<"closed", "in_progress", "closed">>}

\* k open tickets modified after the tickets of tail
OpenThen(k, tail) ==
    [i \in 1..k + Len(tail) |-> FileOf(i, IF i <= k THEN "open" ELSE tail[i - k])]

ClosedOp(limit) == [name |-> "closed", limit |-> limit]

InitClosed ==
    /\ recent \in {OpenThen(k, tail) : k \in 0..FetchLimit, tail \in Tails}
    /\ lop \in {ClosedOp(l) : l \in {0, 1, 2, DefaultLimit}}
    /\ lpc = "start"
    /\ pending = <<>>
    /\ listed = <<>>
    /\ lres = "none"
    /\ dirExists = TRUE
    /\ DirWith({})
    /\ ParkedRes
    /\ ParkedProcs
    /\ ParkedTree
    /\ ParkedText
    /\ ParkedCmd

CmdClosed ==
    /\ lop.name = "closed"
    /\ lpc = "start"
    /\ listed' = runClosed(recent, lop.limit)
    /\ lres' = "ok"
    /\ lpc' = "done"
    /\ UNCHANGED <<lop, recent, pending, textVars, fsVars, resVars, procVars, treeVars, cmdVars>>

SpecClosed == InitClosed /\ [][CmdClosed]_vars

\* ------------------------------------------------------------------------
\* Commands: new, dep, link, unlink, rm, close, clean --fix
\* ------------------------------------------------------------------------
\* A store st is [de |-> the directory exists, nm |-> file names, c |-> contents].
\* The content kept for a record file is what Parse reads from it: every file
\* here is written by Create and patched by UpdateField, so its text is the
\* Format of the Ticket it parses to.
\* A command returns [ok |-> it succeeded, st |-> the store it leaves].
Store == [de |-> dirExists, nm |-> names, c |-> content]

Done(st) == [ok |-> TRUE, st |-> st]

Failed(st) == [ok |-> FALSE, st |-> st]

\* the characters of an ID written as a word
Chars(w) ==
    IF w = "" THEN <<>>
    ELSE IF \E id \in Ids : IdWord(id) = w THEN CHOOSE id \in Ids : IdWord(id) = w
    ELSE <<"?">>

\* t.ID as a string
IDString(t) == IF t.ID = <<>> THEN "" ELSE t.ID[1].s

\* ResolveID(s.dir, partial)
ResolveID(st, p) == IF ExactMatch(st.de, st.nm, p) THEN Ok(p) ELSE ScanResult(st.de, st.nm, p)

\* s.readTicket(path) of a file written by Create and UpdateField
Load(st, n) == IF n \notin st.nm THEN ParseError ELSE st.c[n]

\* the file after ticket.UpdateField has patched its text
Patched(r, name, v) == Parse(UpdateFieldText(FormatText(r.t), name, v))

\* store.Get(partial)
StoreGet(st, p) ==
    LET r == ResolveID(st, p)
    IN IF r.kind = "ok" THEN Load(st, CanonName(r.id)) ELSE ParseError

\* store.List()
StoreList(st) ==
    LET q == SelectSeq(ReadDir(st.nm), LAMBDA n : HasSuffixMd(n) /\ ~Load(st, n).err)
    IN [i \in 1..Len(q) |-> Load(st, q[i]).t]

\* store.UpdateField(partial, field, value)
StoreUpdateField(st, p, name, v) ==
    LET r == ResolveID(st, p)
    IN IF r.kind = "ok"
       THEN Done([st EXCEPT !.c[CanonName(r.id)] = Patched(@, name, v)])
       ELSE Failed(st)

\* store.Delete(partial)
StoreDelete(st, p) ==
    LET r == ResolveID(st, p)
    IN IF r.kind = "ok"
       THEN Done([st EXCEPT !.nm = @ \ {CanonName(r.id)}, !.c[CanonName(r.id)] = <<>>])
       ELSE Failed(st)

\* store.Create(t): EnsureDir, os.Create, Format
StoreCreate(st, t) ==
    [de |-> TRUE,
     nm |-> st.nm \cup {CanonName(Chars(IDString(t)))},
     c |-> [st.c EXCEPT ![CanonName(Chars(IDString(t)))] = Parse(FormatText(t))]]

\* formatLinksArray(links), formatDepsArray(deps)
formatLinksArray(links) == <<Arr(links)>>

Without(q, x) == SelectSeq(q, LAMBDA y : y # x)

Has(q, x) == \E i \in 1..Len(q) : q[i] = x

\* --- runNew: an ID for which store.Get fails, the parent stored as given
runNew(st, id, parent) ==
    IF ~StoreGet(st, id).err THEN Failed(st)
    ELSE Done(StoreCreate(st, [TicketOf(id) EXCEPT !.Parent = Str(parent)]))

\* --- runLink
RECURSIVE ResolveArgs(_, _)
\* store.Get of every argument; <<>> stands for a failed Get
ResolveArgs(st, args) ==
    IF args = <<>> THEN [ok |-> TRUE, ids |-> <<>>]
    ELSE LET g == StoreGet(st, Head(args))
             rest == ResolveArgs(st, Tail(args))
         IN IF g.err \/ ~rest.ok THEN [ok |-> FALSE, ids |-> <<>>]
            ELSE [ok |-> TRUE, ids |-> <<IDString(g.t)>> \o rest.ids]

RECURSIVE AddOthers(_, _, _, _, _)
\* the inner loop: every other ID that is not among the links read from the file
AddOthers(newLinks, existing, ids, i, j) ==
    IF j > Len(ids) THEN newLinks
    ELSE IF i # j /\ ~Has(existing, ids[j])
    THEN AddOthers(Append(newLinks, ids[j]), existing, ids, i, j + 1)
    ELSE AddOthers(newLinks, existing, ids, i, j + 1)

RECURSIVE LinkEach(_, _, _)
LinkEach(st, ids, i) ==
    IF i > Len(ids) THEN Done(st)
    ELSE LET g == StoreGet(st, Chars(ids[i]))
             newLinks == AddOthers(g.t.Links.e, g.t.Links.e, ids, i, 1)
         IN IF g.err THEN Failed(st)
            ELSE IF Len(newLinks) # Len(g.t.Links.e)
            THEN LET u == StoreUpdateField(st, Chars(ids[i]), "links", formatLinksArray(newLinks))
                 IN IF u.ok THEN LinkEach(u.st, ids, i + 1) ELSE u
            ELSE LinkEach(st, ids, i + 1)

runLink(st, args) ==
    LET r == ResolveArgs(st, args)
    IN IF r.ok THEN LinkEach(st, r.ids, 1) ELSE Failed(st)

\* --- runUnlink
\* runUnlink that forgets the target's side
runUnlinkSourceOnly(st, sourceID, targetID) ==
    LET source == StoreGet(st, sourceID)
        target == StoreGet(st, targetID)
    IN IF source.err \/ target.err THEN Failed(st)
       ELSE IF ~Has(source.t.Links.e, IDString(target.t)) THEN Failed(st)
       ELSE StoreUpdateField(st, Chars(IDString(source.t)), "links",
                formatLinksArray(Without(source.t.Links.e, IDString(target.t))))

runUnlink(st, sourceID, targetID) ==
    LET source == StoreGet(st, sourceID)
        target == StoreGet(st, targetID)
    IN IF source.err \/ target.err THEN Failed(st)
       ELSE IF ~Has(source.t.Links.e, IDString(target.t)) THEN Failed(st)
       ELSE LET u == StoreUpdateField(st, Chars(IDString(source.t)), "links",
                        formatLinksArray(Without(source.t.Links.e, IDString(target.t))))
            IN IF ~u.ok THEN u
               ELSE StoreUpdateField(u.st, Chars(IDString(target.t)), "links",
                        formatLinksArray(Without(target.t.Links.e, IDString(source.t))))

\* --- runRm
\* findDependants(allTickets, targetID)
findDependants(all, targetID) ==
    SelectSeq(all, LAMBDA t : IDString(t) # targetID /\ Has(t.Deps.e, targetID))

\* findChildren that finds nothing
findChildrenNone(all, targetID) == <<>>

\* findChildren(allTickets, targetID)
findChildren(all, targetID) ==
    SelectSeq(all, LAMBDA t : t.Parent = Str(targetID))

\* step 6 left out
RemoveLinksSkipped(st, links, targetID) == Done(st)

RECURSIVE RemoveLinks(_, _, _)
\* step 6 of runRm: take target out of the links of every ticket it links to
RemoveLinks(st, links, targetID) ==
    IF links = <<>> THEN Done(st)
    ELSE LET g == StoreGet(st, Chars(Head(links)))
         IN IF g.err THEN RemoveLinks(st, Tail(links), targetID)
            ELSE LET u == StoreUpdateField(st, Chars(IDString(g.t)), "links",
                             formatLinksArray(Without(g.t.Links.e, targetID)))
                 IN IF u.ok THEN RemoveLinks(u.st, Tail(links), targetID) ELSE u

runRm(st, arg, force) ==
    LET target == StoreGet(st, arg)
        all == StoreList(st)
        id == IDString(target.t)
    IN IF target.err THEN Failed(st)
       ELSE IF Len(findDependants(all, id)) > 0 THEN Failed(st)
       ELSE IF Len(findChildren(all, id)) > 0 THEN Failed(st)
       ELSE IF Len(target.t.Links.e) > 0 /\ ~force THEN Failed(st)
       ELSE LET u == IF force THEN RemoveLinks(st, target.t.Links.e, id) ELSE Done(st)
            IN IF u.ok THEN StoreDelete(u.st, Chars(id)) ELSE u

\* --- runDep
runDep(st, ticketID, depID) ==
    LET t == StoreGet(st, ticketID)
        dep == StoreGet(st, depID)
    IN IF t.err \/ dep.err THEN Failed(st)
       ELSE IF Has(t.t.Deps.e, IDString(dep.t)) THEN Done(st)
       ELSE StoreUpdateField(st, ticketID, "deps",
                formatLinksArray(Append(t.t.Deps.e, IDString(dep.t))))

\* --- runUndep: every dep that contains depID goes
runUndep(st, ticketID, depID) ==
    LET t == StoreGet(st, ticketID)
        newDeps == SelectSeq(t.t.Deps.e, LAMBDA d : ~Contains(Chars(d), depID))
    IN IF t.err THEN Failed(st)
       ELSE IF Len(newDeps) = Len(t.t.Deps.e) THEN Failed(st)
       ELSE StoreUpdateField(st, ticketID, "deps", formatLinksArray(newDeps))

\* --- setStatus
\* setStatus that never leaves closed
setStatusFinal(st, p, status) ==
    IF StoreGet(st, p).t.Status = Str("closed") THEN Failed(st)
    ELSE StoreUpdateField(st, p, "status", Str(status))

setStatus(st, p, status) == StoreUpdateField(st, p, "status", Str(status))

\* Status.IsValid
StatusNames == {"open", "in_progress", "closed"}

\* --- runStatus
runStatus(st, p, status) ==
    IF status \notin StatusNames THEN Failed(st) ELSE setStatus(st, p, status)

\* --- runClean with --fix
\* step 2 without the check of the children
DeletableDespiteChildren(all, t) ==
    /\ t.Status = Str("closed")
    /\ Len(findDependants(all, IDString(t))) = 0
    /\ Len(t.Links.e) = 0

\* step 2: a closed ticket that nothing blocks
Deletable(all, t) ==
    /\ t.Status = Str("closed")
    /\ Len(findDependants(all, IDString(t))) = 0
    /\ Len(SelectSeq(findChildren(all, IDString(t)), LAMBDA child : child.Status # Str("closed"))) = 0
    /\ Len(t.Links.e) = 0

RECURSIVE DeleteEach(_, _)
\* step 5: a failed Delete is reported and the loop goes on
DeleteEach(st, deletable) ==
    IF deletable = <<>> THEN st
    ELSE DeleteEach(StoreDelete(st, Chars(IDString(Head(deletable)))).st, Tail(deletable))

runClean(st, cleanFix) ==
    LET all == StoreList(st)
    IN IF ~cleanFix THEN Done(st)
       ELSE Done(DeleteEach(st, SelectSeq(all, LAMBDA t : Deletable(all, t))))

\* --- runPrune
\* buildValidIDSet(tickets)
buildValidIDSet(all) == {IDString(all[i]) : i \in 1..Len(all)}

\* findDanglingRefs for one ticket
DanglingOf(t, validIDs) ==
    [ticket |-> t,
     deps |-> SelectSeq(t.Deps.e, LAMBDA d : d \notin validIDs),
     links |-> SelectSeq(t.Links.e, LAMBDA l : l \notin validIDs),
     parent |-> IF t.Parent # <<>> /\ t.Parent[1].s \notin validIDs THEN t.Parent ELSE <<>>]

\* findDanglingRefs(tickets, validIDs)
findDanglingRefs(all, validIDs) ==
    SelectSeq([i \in 1..Len(all) |-> DanglingOf(all[i], validIDs)],
              LAMBDA dr : Len(dr.deps) > 0 \/ Len(dr.links) > 0 \/ dr.parent # <<>>)

\* filterOutDangling that drops the first dangling ID only
filterOutFirst(original, dangling) ==
    SelectSeq(original, LAMBDA id : id # dangling[1])

\* filterOutDangling(original, dangling)
filterOutDangling(original, dangling) ==
    SelectSeq(original, LAMBDA id : ~Has(dangling, id))

\* fixDanglingRefs for one ticket: a failed UpdateField is a warning
FixOne(st, dr) ==
    LET id == Chars(IDString(dr.ticket))
        s1 == IF Len(dr.deps) > 0
              THEN StoreUpdateField(st, id, "deps",
                       formatLinksArray(filterOutDangling(dr.ticket.Deps.e, dr.deps))).st
              ELSE st
        s2 == IF Len(dr.links) > 0
              THEN StoreUpdateField(s1, id, "links",
                       formatLinksArray(filterOutDangling(dr.ticket.Links.e, dr.links))).st
              ELSE s1
    IN IF dr.parent # <<>> THEN StoreUpdateField(s2, id, "parent", <<>>).st ELSE s2

RECURSIVE fixDanglingRefs(_, _)
fixDanglingRefs(st, dangling) ==
    IF dangling = <<>> THEN st
    ELSE fixDanglingRefs(FixOne(st, Head(dangling)), Tail(dangling))

\* runPrune that fixes without being asked
runPruneAlways(st, pruneFix) ==
    LET all == StoreList(st)
    IN Done(fixDanglingRefs(st, findDanglingRefs(all, buildValidIDSet(all))))

runPrune(st, pruneFix) ==
    LET all == StoreList(st)
        dangling == findDanglingRefs(all, buildValidIDSet(all))
    IN IF Len(all) = 0 \/ Len(dangling) = 0 \/ ~pruneFix THEN Done(st)
       ELSE Done(fixDanglingRefs(st, dangling))

\* --- runReady
\* the status map's entry for an ID, <<>> when no listed ticket has it
StatusOf(all, w) ==
    IF \E i \in 1..Len(all) : IDString(all[i]) = w
    THEN all[CHOOSE i \in 1..Len(all) :
                 /\ IDString(all[i]) = w
                 /\ \A j \in i + 1..Len(all) : IDString(all[j]) # w].Status
    ELSE <<>>

\* the dependency check that takes a missing ticket for a closed one
AllDepsResolvedOrGone(all, t) ==
    \A k \in 1..Len(t.Deps.e) : StatusOf(all, t.Deps.e[k]) \in {Str("closed"), <<>>}

\* all deps must be closed
AllDepsResolved(all, t) ==
    \A k \in 1..Len(t.Deps.e) : StatusOf(all, t.Deps.e[k]) = Str("closed")

\* the order of the listing: by priority, then by ID
ReadyLess(t, u) ==
    IF t.Priority # u.Priority THEN t.Priority < u.Priority
    ELSE StrLess(Chars(IDString(t)), Chars(IDString(u)))

RECURSIVE SortReady(_)
SortReady(q) ==
    IF q = <<>> THEN <<>>
    ELSE LET m == CHOOSE i \in 1..Len(q) : \A j \in 1..Len(q) : ~ReadyLess(q[j], q[i])
         IN <<q[m]>> \o SortReady([k \in 1..Len(q) - 1 |-> IF k < m THEN q[k] ELSE q[k + 1]])

\* the IDs that ready prints, in order
runReady(st) ==
    LET all == StoreList(st)
        ready == SortReady(SelectSeq(all, LAMBDA t :
                     /\ t.Status \in {Str("open"), Str("in_progress")}
                     /\ AllDepsResolved(all, t)))
    IN [i \in 1..Len(ready) |-> IDString(ready[i])]

\* --- runBlocked
\* the blockers that leave out the deps naming no listed ticket
BlockersExisting(all, t) ==
    SelectSeq(t.Deps.e, LAMBDA dep : StatusOf(all, dep) \notin {Str("closed"), <<>>})

\* the unclosed blockers of t: the deps whose status map entry is not closed
Blockers(all, t) ==
    SelectSeq(t.Deps.e, LAMBDA dep : StatusOf(all, dep) # Str("closed"))

\* the IDs that blocked prints, in order
runBlocked(st) ==
    LET all == StoreList(st)
        blocked == SortReady(SelectSeq(all, LAMBDA t :
                       /\ t.Status \in {Str("open"), Str("in_progress")}
                       /\ Len(t.Deps.e) # 0
                       /\ Len(Blockers(all, t)) > 0))
    IN [i \in 1..Len(blocked) |-> IDString(blocked[i])]

\* --- one command per step
\* the ID arguments typed on the command line: full IDs and a partial one
CmdArgs == Ids \cup {<<"b">>}

\* the arguments of link: two or three IDs
LinkArgs == {<<x, y>> : x, y \in CmdArgs} \cup {<<x, y, z>> : x, y, z \in Ids}

\* the arguments of link when every one is given once or twice
LinkPairs == {<<x, y>> : x, y \in CmdArgs}

\* the links that the ticket id had in the store st
LinkedIn(st, id) ==
    IF id = "" THEN {} ELSE {Load(st, CanonName(Chars(id))).t.Links.e[i] :
                                i \in 1..Len(Load(st, CanonName(Chars(id))).t.Links.e)}

\* the command name(id, arg) has run with result r and has listed the IDs out;
\* lastCmd keeps what it was given, the links its target had, the IDs of the
\* files it deleted and the IDs it listed
Noted(name, id, arg, force, r, out) ==
    /\ dirExists' = r.st.de
    /\ names' = r.st.nm
    /\ content' = r.st.c
    /\ ncmd' = ncmd + 1
    /\ lastCmd' = [name |-> name, id |-> id, force |-> force, ok |-> r.ok,
                   linked |-> LinkedIn(Store, id),
                   removed |-> {IdWord(x) : x \in {y \in Ids : CanonName(y) \in names \ r.st.nm}},
                   out |-> out, arg |-> arg]
    /\ UNCHANGED <<resVars, procVars, treeVars, textVars, listVars>>

\* a command of one ID argument that lists IDs
Listed(name, id, force, r, out) == Noted(name, id, "", force, r, out)

\* a command that lists nothing
Ran(name, id, force, r) == Listed(name, id, force, r, <<>>)

\* the ID of the ticket that partial resolves to, "" when store.Get fails
TargetID(p) == IF StoreGet(Store, p).err THEN "" ELSE IDString(StoreGet(Store, p).t)

CmdNew(parents) ==
    /\ ncmd < MaxCmds
    /\ \E id \in Ids, parent \in parents : Ran("new", IdWord(id), FALSE, runNew(Store, id, parent))

CmdLink(argLists) ==
    /\ ncmd < MaxCmds
    /\ \E args \in argLists : Ran("link", TargetID(args[1]), FALSE, runLink(Store, args))

CmdUnlink ==
    /\ ncmd < MaxCmds
    /\ \E x, y \in CmdArgs : Ran("unlink", TargetID(x), FALSE, runUnlink(Store, x, y))

CmdRm ==
    /\ ncmd < MaxCmds
    /\ \E x \in CmdArgs, force \in BOOLEAN : Ran("rm", TargetID(x), force, runRm(Store, x, force))

CmdDep ==
    /\ ncmd < MaxCmds
    /\ \E x, y \in CmdArgs : Ran("dep", TargetID(x), FALSE, runDep(Store, x, y))

CmdStatus ==
    /\ ncmd < MaxCmds
    /\ \E x \in CmdArgs, status \in {"in_progress", "closed"} :
          Ran("status", TargetID(x), FALSE, setStatus(Store, x, status))

\* clean, with --fix or without
CmdClean(cleanFix) ==
    /\ ncmd < MaxCmds
    /\ Ran("clean", "", cleanFix, runClean(Store, cleanFix))

\* prune, with --fix or without
CmdPrune(pruneFix) ==
    /\ ncmd < MaxCmds
    /\ Ran("prune", "", pruneFix, runPrune(Store, pruneFix))

CmdUndep ==
    /\ ncmd < MaxCmds
    /\ \E x, y \in CmdArgs : Ran("undep", TargetID(x), FALSE, runUndep(Store, x, y))

\* status <id> <status>
CmdStatusTo ==
    /\ ncmd < MaxCmds
    /\ \E x \in CmdArgs, status \in StatusNames \cup {"done"} :
          Noted("status", TargetID(x), status, FALSE, runStatus(Store, x, status), <<>>)

\* start <id>
CmdStart ==
    /\ ncmd < MaxCmds
    /\ \E x \in CmdArgs :
          Noted("start", TargetID(x), "in_progress", FALSE, setStatus(Store, x, "in_progress"), <<>>)

\* close <id>
CmdClose ==
    /\ ncmd < MaxCmds
    /\ \E x \in CmdArgs :
          Noted("close", TargetID(x), "closed", FALSE, setStatus(Store, x, "closed"), <<>>)

\* reopen <id>
CmdReopen ==
    /\ ncmd < MaxCmds
    /\ \E x \in CmdArgs :
          Noted("reopen", TargetID(x), "open", FALSE, setStatus(Store, x, "open"), <<>>)

CmdReady ==
    /\ ncmd < MaxCmds
    /\ Listed("ready", "", FALSE, Done(Store), runReady(Store))

CmdBlocked ==
    /\ ncmd < MaxCmds
    /\ Listed("blocked", "", FALSE, Done(Store), runBlocked(Store))

\* an empty store: the tickets directory is created by the first new
InitCmd ==
    /\ dirExists = FALSE
    /\ DirWith({})
    /\ ncmd = 0
    /\ lastCmd = NoCmd
    /\ ParkedRes
    /\ ParkedProcs
    /\ ParkedTree
    /\ ParkedText
    /\ ParkedList

\* new, link, unlink and rm in any order
NextLinks == CmdNew({""}) \/ CmdLink(LinkArgs) \/ CmdUnlink \/ CmdRm

SpecLinks == InitCmd /\ [][NextLinks]_vars

\* new with and without --parent, dep, link and rm in any order
NextRm == CmdNew({"", "a"}) \/ CmdDep \/ CmdLink(LinkPairs) \/ CmdRm

SpecRm == InitCmd /\ [][NextRm]_vars

\* new, dep, link, status changes and clean --fix in any order
NextClean == CmdNew({"", "a"}) \/ CmdDep \/ CmdLink(LinkPairs) \/ CmdStatus \/ CmdClean(TRUE)

SpecClean == InitCmd /\ [][NextClean]_vars

\* the store before the first command
EmptyStore == [de |-> FALSE, nm |-> {}, c |-> [n \in FileNames |-> <<>>]]

\* the store st is the one the next command finds
InitWith(st) ==
    /\ dirExists = st.de
    /\ names = st.nm
    /\ content = st.c
    /\ ncmd = 0
    /\ lastCmd = NoCmd
    /\ ParkedRes
    /\ ParkedProcs
    /\ ParkedTree
    /\ ParkedText
    /\ ParkedList

\* the store after new (ID a), new --parent a (ID ab), new (ID bab)
FamilyStore ==
    runNew(runNew(runNew(EmptyStore, <<"a">>, "").st, <<"a", "b">>, "a").st, <<"b", "a", "b">>, "").st

\* ticket files as an editor or a removed file can leave them: the deps,
\* links and parent of a and ab name existing and missing tickets
RefWords == {IdWord(id) : id \in Ids}

RefLists == UNION {[1..n -> RefWords] : n \in 0..MaxRefs}

\* the ticket id with the given status, deps, links and parent
Edited(id, status, d, l, q) ==
    [TicketOf(id) EXCEPT !.Status = Str(status), !.Deps = Slice(d), !.Links = Slice(l),
                         !.Parent = Str(q)]

EditedA ==
    {Edited(<<"a">>, status, d, l, q) :
        status \in {"open", "closed"}, d \in RefLists, l \in {<<>>, <<"bab", "ab">>},
        q \in {"", "bab"}}

EditedAb ==
    {Edited(<<"a", "b">>, "open", <<>>, <<>>, ""),
     Edited(<<"a", "b">>, "closed", <<"bab", "a">>, <<"bab">>, "bab")}

EditedStores ==
    {StoreCreate(EmptyStore, ta) : ta \in EditedA}
        \cup {StoreCreate(StoreCreate(EmptyStore, ta), tb) : ta \in EditedA, tb \in EditedAb}

InitEdited == \E st \in EditedStores : InitWith(st)

\* one of the few maintenance runs made on such a store
PruneRun(pruneFix) == ncmd < MaxRuns /\ CmdPrune(pruneFix)

CleanRun(cleanFix) == ncmd < MaxRuns /\ CmdClean(cleanFix)

\* prune with and without --fix and clean without --fix
NextPrune == PruneRun(TRUE) \/ PruneRun(FALSE) \/ CleanRun(FALSE)

SpecPrune == InitEdited /\ [][NextPrune]_vars

\* stores of a and ab in any status, with deps on each other, on themselves
\* and on the missing bab
DepStores ==
    {StoreCreate(StoreCreate(EmptyStore, Edited(<<"a">>, sa, da, <<>>, "")),
                 Edited(<<"a", "b">>, sb, db, <<>>, "")) :
        sa \in StatusNames, sb \in StatusNames, da \in RefLists,
        db \in {<<>>, <<"a">>, <<"ab">>, <<"bab", "a">>}}

InitDeps == \E st \in DepStores : InitWith(st)

\* ready on such a store
NextReady == ncmd < MaxRuns /\ CmdReady

SpecReady == InitDeps /\ [][NextReady]_vars

\* ready, then blocked on the store as ready saw it
ReadyRun == ncmd < MaxRuns /\ CmdReady

BlockedRun == lastCmd.name = "ready" /\ CmdBlocked

NextBlocked == ReadyRun \/ BlockedRun

SpecBlocked == InitDeps /\ [][NextBlocked]_vars

\* the store after new -d "status: x" (ID a) and new (ID ab)
PairStore ==
    StoreCreate(StoreCreate(EmptyStore,
                    [TicketOf(<<"a">>) EXCEPT !.Body = <<FieldLine("status", Str("x"))>>]),
                TicketOf(<<"a", "b">>))

\* status, start, close and reopen in any order
NextStatus == CmdStatusTo \/ CmdStart \/ CmdClose \/ CmdReopen

SpecStatus == InitWith(PairStore) /\ [][NextStatus]_vars

\* dep and undep in any order on three tickets
NextUndep == CmdDep \/ CmdUndep

SpecUndep == InitWith(FamilyStore) /\ [][NextUndep]_vars

\* a few dep and link commands, of two or three arguments, in any order on
\* three tickets
DepRun == ncmd < MaxRuns /\ CmdDep

LinkRun == ncmd < MaxRuns /\ CmdLink(LinkArgs)

NextDepLink == DepRun \/ LinkRun

SpecDepLink == InitWith(FamilyStore) /\ [][NextDepLink]_vars

\* link, status changes and clean --fix in any order on a parent, its child
\* and a third ticket
NextCleanRefs == CmdLink(LinkPairs) \/ CmdStatus \/ CmdClean(TRUE)

SpecCleanRefs == InitWith(FamilyStore) /\ [][NextCleanRefs]_vars

\* ------------------------------------------------------------------------
\* The dependency tree: deptree.Build and Tree.Render
\* ------------------------------------------------------------------------
\* the tickets of the map handed to Build
TicketIds == {"a", "b", "c", "d"}

\* what a Deps entry may name: a ticket, a ticket that is gone ("z"), or
\* the empty string
DepTargets == TicketIds \cup {"z", ""}

\* byte order of the IDs
IdOrder == <<"", "a", "b", "c", "d", "z">>

IdRank(id) == CHOOSE k \in DOMAIN IdOrder : IdOrder[k] = id

\* children[i] < children[j] on ID strings
IdLess(x, y) == IdRank(x) < IdRank(y)

NoDeps == [t \in TicketIds |-> <<>>]

\* the tickets reached from the tickets of S along the Deps of m
RECURSIVE ReachedFrom(_, _)
ReachedFrom(m, S) ==
    LET T == S \cup UNION {{m[t][k] : k \in DOMAIN m[t]} : t \in S}
        U == T \cap TicketIds
    IN IF U = S THEN S ELSE ReachedFrom(m, U)

\* the ticket maps with at most n dependency edges in all, every edge
\* leaving a ticket reached from "a" (Build never reads the Deps of the
\* others); a Deps list holds no ID twice (runDep refuses to add a
\* dependency that is already there) and is in ascending ID order
RECURSIVE TicketMaps(_)
TicketMaps(n) ==
    IF n = 0 THEN {NoDeps}
    ELSE LET M == TicketMaps(n - 1)
             Added(m, t) == {[m EXCEPT ![t] = Append(m[t], x)] :
                               x \in {y \in DepTargets : \A k \in DOMAIN m[t] : IdLess(m[t][k], y)}}
         IN M \cup UNION {UNION {Added(m, t) : t \in ReachedFrom(m, {"a"})} : m \in M}

\* a list back to front
Reverse(q) == [k \in 1..Len(q) |-> q[Len(q) + 1 - k]]

\* the same maps with every Deps list in descending ID order
ReversedMaps(n) == {[t \in TicketIds |-> Reverse(m[t])] : m \in TicketMaps(n)}

\* t.nodes[id] is present
HasNode(id) == id \in TicketIds

\* strings.Contains(item.path, ":"+id+":") in the two passes of Build; a
\* path is the list of the IDs between the colons
InPath(path, id) == \E k \in DOMAIN path : path[k] = id

RenderGuardNever(path, id) == FALSE

\* strings.Contains(path, ":"+dep+":") in renderChildren
RenderGuard(path, id) == \E k \in DOMAIN path : path[k] = id

FirstDepth(old, depth) == IF old = -1 THEN depth ELSE old

\* if item.depth > node.MaxDepth { node.MaxDepth = item.depth }
NewMaxDepth(old, depth) == IF depth > old THEN depth ELSE old

\* the stack without its top item
Pop(stk) == SubSeq(stk, 1, Len(stk) - 1)

SecondVisitKeep(stk) == stk

\* the stack when the second visit of an item ends: the item is popped
SecondVisitDone(stk) == Pop(stk)

Item(id, depth, path, phase) == [id |-> id, depth |-> depth, path |-> path, phase |-> phase]

\* the items pushed for the Deps list deps, last dependency first, leaving
\* out the empty string and the IDs in skip
RECURSIVE PushDeps(_, _, _, _)
PushDeps(deps, depth, path, skip) ==
    IF deps = <<>> THEN <<>>
    ELSE LET d == deps[Len(deps)]
             rest == PushDeps(SubSeq(deps, 1, Len(deps) - 1), depth, path, skip)
         IN IF d # "" /\ d \notin skip THEN <<Item(d, depth, path, 0)>> \o rest ELSE rest

\* maxSub over the Deps list: the largest SubtreeDepth among the
\* dependencies that are in the map, and at least m
RECURSIVE MaxSub(_, _)
MaxSub(deps, m) ==
    IF deps = <<>> THEN m
    ELSE LET d == Head(deps)
         IN MaxSub(Tail(deps), IF HasNode(d) /\ subtreeDepth[d] > m THEN subtreeDepth[d] ELSE m)

RenderableAlwaysDedup(dep, path, depth, pr) ==
    /\ dep # ""
    /\ HasNode(dep)
    /\ ~RenderGuard(path, dep)
    /\ dep \notin pr /\ depth + 1 = maxDepth[dep]

\* renderChildren's test of one dependency: in the map, not on the render
\* path and, unless in full mode, not printed yet and at its MaxDepth
Renderable(dep, path, depth, pr) ==
    /\ dep # ""
    /\ HasNode(dep)
    /\ ~RenderGuard(path, dep)
    /\ full \/ (dep \notin pr /\ depth + 1 = maxDepth[dep])

\* the comparison by ID alone
ChildLessById(x, y) == IdLess(x, y)

\* the sort.Slice comparison: by SubtreeDepth, then by ID
ChildLess(x, y) ==
    IF subtreeDepth[x] # subtreeDepth[y] THEN subtreeDepth[x] < subtreeDepth[y]
    ELSE IdLess(x, y)

\* insertion of x into a sorted list
RECURSIVE SortedInsert(_, _)
SortedInsert(q, x) ==
    IF q = <<>> THEN <<x>>
    ELSE IF ChildLess(x, Head(q)) THEN <<x>> \o q
    ELSE <<Head(q)>> \o SortedInsert(Tail(q), x)

RECURSIVE SortChildren(_)
SortChildren(q) ==
    IF q = <<>> THEN <<>> ELSE SortedInsert(SortChildren(Tail(q)), Head(q))

\* the children list renderChildren(id, _, path, depth) builds on entry
Children(id, path, depth, pr) ==
    SortChildren(SelectSeq(tickets[id], LAMBDA dep : Renderable(dep, path, depth, pr)))

\* one activation of renderChildren: its children list and loop index
Frame(id, path, depth, pr) ==
    [id |-> id, path |-> path, depth |-> depth, i |-> 1,
     children |-> Children(id, path, depth, pr)]

\* a printed line: the ticket, its depth and the chain of tickets above it
Line(id, depth, path) == [id |-> id, depth |-> depth, path |-> path]

InitTree ==
    /\ tickets \in TicketMaps(MaxEdges) \cup ReversedMaps(MaxEdges)
    /\ root \in {"a", "z"}
    /\ root = "z" => tickets \in TicketMaps(1)
    /\ full \in BOOLEAN
    /\ tpc = "pass1"
    /\ maxDepth = [t \in TicketIds |-> -1]
    /\ subtreeDepth = [t \in TicketIds |-> 0]
    /\ stack = <<Item(root, 0, <<>>, 0)>>
    /\ computed = {}
    /\ printed = {}
    /\ frames = <<>>
    /\ output = <<>>
    /\ work = NoWork
    /\ dirExists = FALSE
    /\ names = {}
    /\ content = [n \in FileNames |-> <<>>]
    /\ ParkedRes
    /\ ParkedProcs
    /\ ParkedRest

\* computeMaxDepths: one iteration of the loop
MaxDepthStep ==
    /\ tpc = "pass1"
    /\ stack # <<>>
    /\ LET item == stack[Len(stack)]
       IN IF ~HasNode(item.id) \/ InPath(item.path, item.id)
          THEN /\ stack' = Pop(stack)
               /\ maxDepth' = maxDepth
          ELSE /\ maxDepth' = [maxDepth EXCEPT ![item.id] = NewMaxDepth(maxDepth[item.id], item.depth)]
               /\ stack' = Pop(stack) \o
                     PushDeps(tickets[item.id], item.depth + 1, Append(item.path, item.id), {})
    /\ work' = [work EXCEPT !.pass1 = Counted(@)]
    /\ UNCHANGED <<tickets, root, full, tpc, subtreeDepth, computed, printed, frames, output>>
    /\ UNCHANGED <<fsVars, resVars, procVars, restVars>>

\* computeMaxDepths returns, computeSubtreeDepths starts
MaxDepthDone ==
    /\ tpc = "pass1"
    /\ stack = <<>>
    /\ tpc' = "pass2"
    /\ stack' = <<Item(root, 0, <<>>, 0)>>
    /\ computed' = {}
    /\ UNCHANGED <<tickets, root, full, maxDepth, subtreeDepth, printed, frames, output, work>>
    /\ UNCHANGED <<fsVars, resVars, procVars, restVars>>

\* computeSubtreeDepths: one iteration of the loop
SubtreeDepthStep ==
    /\ tpc = "pass2"
    /\ stack # <<>>
    /\ LET item == stack[Len(stack)]
       IN IF ~HasNode(item.id) \/ InPath(item.path, item.id)
          THEN /\ stack' = Pop(stack)
               /\ UNCHANGED <<subtreeDepth, computed>>
          ELSE IF item.phase = 0
          THEN /\ stack' = [stack EXCEPT ![Len(stack)].phase = 1] \o
                     PushDeps(tickets[item.id], 0, Append(item.path, item.id), computed)
               /\ UNCHANGED <<subtreeDepth, computed>>
          ELSE /\ subtreeDepth' = [subtreeDepth EXCEPT ![item.id] =
                                      MaxSub(tickets[item.id], maxDepth[item.id])]
               /\ computed' = computed \cup {item.id}
               /\ stack' = SecondVisitDone(stack)
    /\ work' = [work EXCEPT !.pass2 = Counted(@)]
    /\ UNCHANGED <<tickets, root, full, tpc, maxDepth, printed, frames, output>>
    /\ UNCHANGED <<fsVars, resVars, procVars, restVars>>

\* computeSubtreeDepths returns and Build with it
SubtreeDepthDone ==
    /\ tpc = "pass2"
    /\ stack = <<>>
    /\ tpc' = "render"
    /\ UNCHANGED <<tickets, root, full, maxDepth, subtreeDepth, stack, computed, printed, frames, output, work>>
    /\ UNCHANGED <<fsVars, resVars, procVars, restVars>>

\* Render: print the root and call renderChildren on it
RenderRoot ==
    /\ tpc = "render"
    /\ IF ~HasNode(root)
       THEN /\ tpc' = "done"
            /\ UNCHANGED <<printed, frames, output>>
       ELSE /\ output' = <<Line(root, 0, <<>>)>>
            /\ printed' = printed \cup {root}
            /\ frames' = <<Frame(root, <<root>>, 0, printed')>>
            /\ tpc' = "children"
    /\ UNCHANGED <<tickets, root, full, maxDepth, subtreeDepth, stack, computed, work>>
    /\ UNCHANGED <<fsVars, resVars, procVars, restVars>>

\* renderChildren: one iteration of the loop over children, which prints
\* the child and calls renderChildren on it
RenderChild ==
    /\ tpc = "children"
    /\ frames # <<>>
    /\ LET f == frames[Len(frames)]
       IN /\ f.i <= Len(f.children)
          /\ LET child == f.children[f.i]
             IN /\ output' = Append(output, Line(child, f.depth + 1, f.path))
                /\ printed' = IF full THEN printed ELSE printed \cup {child}
                /\ frames' = Append([frames EXCEPT ![Len(frames)].i = f.i + 1],
                                    Frame(child, Append(f.path, child), f.depth + 1, printed'))
    /\ UNCHANGED <<tickets, root, full, tpc, maxDepth, subtreeDepth, stack, computed, work>>
    /\ UNCHANGED <<fsVars, resVars, procVars, restVars>>

\* renderChildren returns: no children, or the loop is over
RenderReturn ==
    /\ tpc = "children"
    /\ frames # <<>>
    /\ frames[Len(frames)].i > Len(frames[Len(frames)].children)
    /\ frames' = Pop(frames)
    /\ tpc' = IF Len(frames) = 1 THEN "done" ELSE tpc
    /\ UNCHANGED <<tickets, root, full, maxDepth, subtreeDepth, stack, computed, printed, output, work>>
    /\ UNCHANGED <<fsVars, resVars, procVars, restVars>>

NextTree ==
    \/ MaxDepthStep
    \/ MaxDepthDone
    \/ SubtreeDepthStep
    \/ SubtreeDepthDone
    \/ RenderRoot
    \/ RenderChild
    \/ RenderReturn

SpecTree == InitTree /\ [][NextTree]_vars

\* the maps in which the root a depends on any of the other tickets in any
\* order and every other ticket has at most one dependency
RootDeps ==
    {q \in UNION {[1..n -> TicketIds \ {"a"}] : n \in 0..3} :
        \A i, j \in DOMAIN q : q[i] = q[j] => i = j}

FanMaps ==
    {[t \in TicketIds |-> IF t = "a" THEN q ELSE dep[t]] :
        q \in RootDeps,
        dep \in [TicketIds \ {"a"} -> {<<>>} \cup {<<x>> : x \in TicketIds \cup {"z"}}]}

\* Build on such a map
InitFan ==
    /\ tickets \in FanMaps
    /\ root = "a"
    /\ full = FALSE
    /\ tpc = "pass1"
    /\ maxDepth = [t \in TicketIds |-> -1]
    /\ subtreeDepth = [t \in TicketIds |-> 0]
    /\ stack = <<Item(root, 0, <<>>, 0)>>
    /\ computed = {}
    /\ printed = {}
    /\ frames = <<>>
    /\ output = <<>>
    /\ work = NoWork
    /\ dirExists = FALSE
    /\ names = {}
    /\ content = [n \in FileNames |-> <<>>]
    /\ ParkedRes
    /\ ParkedProcs
    /\ ParkedRest

NextBuild == MaxDepthStep \/ MaxDepthDone \/ SubtreeDepthStep \/ SubtreeDepthDone

SpecBuild == InitFan /\ [][NextBuild]_vars

\* the IDs of S as a Deps list in ascending order
RECURSIVE Ascending(_)
Ascending(S) ==
    IF S = {} THEN <<>>
    ELSE LET x == CHOOSE y \in S : \A z \in S \ {y} : IdLess(y, z)
         IN <<x>> \o Ascending(S \ {x})

\* the maps in which the root a depends on every other ticket and every
\* other ticket depends on any of the tickets but itself
DenseMaps ==
    {[t \in TicketIds |-> IF t = "a" THEN <<"b", "c", "d">> ELSE Ascending(dep[t])] :
        dep \in {f \in [TicketIds \ {"a"} -> SUBSET TicketIds] : \A t \in DOMAIN f : t \notin f[t]}}

\* Build on such a map
InitDense ==
    /\ tickets \in DenseMaps
    /\ root = "a"
    /\ full = FALSE
    /\ tpc = "pass1"
    /\ maxDepth = [t \in TicketIds |-> -1]
    /\ subtreeDepth = [t \in TicketIds |-> 0]
    /\ stack = <<Item(root, 0, <<>>, 0)>>
    /\ computed = {}
    /\ printed = {}
    /\ frames = <<>>
    /\ output = <<>>
    /\ work = NoWork
    /\ dirExists = FALSE
    /\ names = {}
    /\ content = [n \in FileNames |-> <<>>]
    /\ ParkedRes
    /\ ParkedProcs
    /\ ParkedRest

SpecDense == InitDense /\ [][NextBuild]_vars

\* the loops and the recursion run on: each step that can be taken is taken
SpecTreeFair == InitTree /\ [][NextTree]_vars /\ WF_vars(NextTree)

\* ------------------------------------------------------------------------
\* Properties of ResolveID (checked under SpecResolve)
\* ------------------------------------------------------------------------
\* the IDs of the record files in the store
StoredIds == IF dirExists THEN {id \in Ids : <<id, "md">> \in names} ELSE {}

\* sub is a contiguous piece of s: s[i+1..j] for some cut points i <= j
IsSubstring(sub, s) ==
    \E i \in 0..Len(s), j \in 0..Len(s) : i <= j /\ sub = [k \in 1..(j - i) |-> s[i + k]]

\* the stored IDs that contain the partial identifier
Containing(p) == {id \in StoredIds : IsSubstring(p, id)}

\* the elements of a sequence
Range(f) == {f[k] : k \in DOMAIN f}

\* C3: when a record file whose ID is exactly the input exists, ResolveID
\* returns the input itself, whatever other stored IDs contain it.
ResolveExactWins ==
    (rpc = "done" /\ partial \in StoredIds) => rres = Ok(partial)

\* C3 witness: an exact match returned although another stored ID contains it
ResolveExactWinsSeen ==
    /\ rpc = "done"
    /\ partial \in StoredIds
    /\ Containing(partial) \ {partial} # {}
    /\ rres = Ok(partial)

\* C4: ResolveID fails with NotFound exactly when no stored ID contains the
\* input as a contiguous substring.
ResolveNotFoundIff ==
    rpc = "done" => (rres.kind = "NotFound" <=> Containing(partial) = {})

\* C4 witness: NotFound on a store that holds records, and a temporary file
\* whose name contains the input
ResolveNotFoundSeen ==
    /\ rpc = "done"
    /\ rres = ErrNotFound(partial)
    /\ StoredIds # {}
    /\ \E n \in names : n[2] = "tmp" /\ IsSubstring(partial, n[1])

\* C5 as claimed: ResolveID fails with Ambiguous exactly when more than one
\* stored ID contains the input, and the error lists every such ID.
ResolveAmbiguousIffMany ==
    rpc = "done" =>
        /\ rres.kind = "Ambiguous" <=> Cardinality(Containing(partial)) > 1
        /\ rres.kind = "Ambiguous" => Range(rres.matches) = Containing(partial)

\* C5 amended: ResolveID fails with Ambiguous exactly when no stored ID equals
\* the input and more than one stored ID contains it; the error then lists
\* every such ID, each once.
ResolveAmbiguousIffManyInexact ==
    rpc = "done" =>
        /\ rres.kind = "Ambiguous" <=>
              (partial \notin StoredIds /\ Cardinality(Containing(partial)) > 1)
        /\ rres.kind = "Ambiguous" =>
              /\ Range(rres.matches) = Containing(partial)
              /\ Len(rres.matches) = Cardinality(Containing(partial))
              /\ rres.id = partial

\* C5 witness: an Ambiguous error that lists several IDs
ResolveAmbiguousSeen ==
    /\ rpc = "done"
    /\ rres.kind = "Ambiguous"
    /\ Len(rres.matches) > 1

\* ------------------------------------------------------------------------
\* Properties of Update and UpdateField
\* ------------------------------------------------------------------------
\* the record file of id is the same before and after the step
RecordUntouched(id) ==
    /\ (CanonName(id) \in names) <=> (CanonName(id) \in names')
    /\ content'[CanonName(id)] = content[CanonName(id)]

\* the step is the rename of process p's operation on id, and it puts the
\* whole new content in place
RecordReplaced(p, id) ==
    /\ pc[p] \in {"up_rename", "uf_rename"}
    /\ op[p].id = id
    /\ CanonName(id) \in names'
    /\ content'[CanonName(id)] =
          IF op[p].name = "Update" THEN Format(op[p].val)
          ELSE UpdateFieldContent(content[CanonName(id)], op[p].val)

\* every record file holds a complete record
RecordsComplete == \A id \in StoreIds : CanonName(id) \in names => Complete(content[CanonName(id)])

\* C1: whatever step an Update or UpdateField is interrupted at, the record
\* file holds the whole previous content before the rename and the whole new
\* content after it: every step, a crash included, leaves each record file
\* untouched or is the rename that replaces it, and the file is a complete
\* record after every step.
UpdateCrashAtomic ==
    [][/\ \A id \in StoreIds : RecordUntouched(id) \/ RecordReplaced(1, id)
       /\ RecordsComplete']_vars

\* C1 witness: the process was killed between its writes to the temporary
\* file, which is left half-written, and the record file still holds the
\* previous content
UpdateCrashSeen ==
    /\ pc[1] = "idle"
    /\ started > 0
    /\ ret[1] = NoResult
    /\ \E id \in StoreIds :
        /\ TmpName(id) \in names
        /\ Len(content[TmpName(id)]) = 1
        /\ CanonName(id) \in names
        /\ content[CanonName(id)] = Format(1)

\* C10 as claimed: with two processes updating concurrently, the record file
\* holds at every moment the whole content of one writer or the whole
\* earlier content.
ConcurrentUpdateComplete == RecordsComplete

\* ------------------------------------------------------------------------
\* Properties of Build and Render
\* ------------------------------------------------------------------------
\* the dependency paths that start with the list p, repeat no ticket and
\* run through tickets of the map only
RECURSIVE PathsFrom(_)
PathsFrom(p) ==
    LET last == p[Len(p)]
        next == ({tickets[last][k] : k \in DOMAIN tickets[last]} \cap TicketIds) \ Range(p)
    IN {p} \cup UNION {PathsFrom(Append(p, d)) : d \in next}

\* the dependency paths from the root that repeat no ticket
SimplePaths == IF root \in TicketIds THEN PathsFrom(<<root>>) ELSE {}

\* the depths at which ticket t is reached along those paths
DepthsOf(t) == {Len(p) - 1 : p \in {q \in SimplePaths : q[Len(q)] = t}}

\* the greatest of them, -1 when the ticket is not reached
Deepest(t) == IF DepthsOf(t) = {} THEN -1 ELSE CHOOSE d \in DepthsOf(t) : \A e \in DepthsOf(t) : e <= d

\* the tickets reached from the root
Reachable == {p[Len(p)] : p \in SimplePaths}

\* some path from the root can be closed into a cycle
HasCycle == \E p \in SimplePaths : \E k \in DOMAIN p : \E j \in DOMAIN tickets[p[Len(p)]] :
                tickets[p[Len(p)]][j] = p[k]

\* the lines printed for ticket t
LinesOf(t) == {k \in DOMAIN output : output[k].id = t}

\* the dependency path a printed line stands for
LinePath(k) == Append(output[k].path, output[k].id)

\* C2: Build (both passes) and Render terminate for every ticket map and
\* root, cycles, self-dependencies and missing dependencies included.
BuildRenderTerminates == <>(tpc = "done")

\* C2 witness: a run over a map with a cycle and a dependency on a missing
\* ticket has ended
TerminatedOnCycle ==
    /\ tpc = "done"
    /\ HasCycle
    /\ \E t \in Reachable : \E j \in DOMAIN tickets[t] : tickets[t][j] = "z"

\* C6 as claimed: in default mode every ticket reachable from the root is
\* printed exactly once, at the depth equal to its MaxDepth.
DedupPrintsOnceAtMaxDepth ==
    (tpc = "done" /\ ~full) =>
        \A t \in Reachable :
            /\ Cardinality(LinesOf(t)) = 1
            /\ \A k \in LinesOf(t) : output[k].depth = maxDepth[t]

\* C7: in full mode Render prints exactly one line for every dependency path
\* from the root that repeats no ticket, and nothing else.
FullPrintsEveryPath ==
    (tpc = "done" /\ full) =>
        /\ {LinePath(k) : k \in DOMAIN output} = SimplePaths
        /\ Len(output) = Cardinality(SimplePaths)
        /\ \A k \in DOMAIN output : output[k].depth = Len(output[k].path)

\* C7 witness: a full-mode run printed some ticket twice
FullPrintedTwice ==
    /\ tpc = "done"
    /\ full
    /\ \E t \in TicketIds : Cardinality(LinesOf(t)) >= 2

\* the three-ticket cycle: A depends on C, C on B, B on A
Cycle3 == [NoDeps EXCEPT !["a"] = <<"c">>, !["c"] = <<"b">>, !["b"] = <<"a">>]

\* C8: on the three-ticket cycle with root A the output never grows past
\* three lines, and when Render returns it holds A, B and C.
CycleOutputBounded ==
    (tickets = Cycle3 /\ root = "a") =>
        /\ Len(output) <= 3
        /\ tpc = "done" => {"a", "b", "c"} \subseteq {output[k].id : k \in DOMAIN output}

\* C8 witness: Render returned on the three-ticket cycle
CycleRendered ==
    /\ tickets = Cycle3
    /\ root = "a"
    /\ tpc = "done"
    /\ Len(output) = 3

\* C9: after Build the MaxDepth of every ticket is the greatest depth at
\* which it is reached along a dependency path from the root that repeats no
\* ticket (and stays -1 for a ticket that is not reached).
MaxDepthIsDeepest ==
    tpc = "render" => \A t \in TicketIds : maxDepth[t] = Deepest(t)

\* C9 witness: a ticket reached at depths 1 and 3 has MaxDepth 3
MaxDepthOneAndThree ==
    /\ tpc = "render"
    /\ \E t \in TicketIds : {1, 3} \subseteq DepthsOf(t) /\ maxDepth[t] = 3

\* ------------------------------------------------------------------------
\* C11: two processes mutating two different records never conflict: every
\* operation returns success, at its return the record holds exactly the
\* content its writer wrote, and a record changes at no other step.
\* ------------------------------------------------------------------------
Returns(p) == pc[p] # "idle" /\ pc'[p] = "idle"

DistinctRecordsNoConflict ==
    [][\A p \in Procs :
        LET path == CanonName(Own(p))
        IN /\ Returns(p) =>
                /\ ret'[p] = Ok(Own(p))
                /\ path \in names'
                /\ content'[path] = Format(op[p].val)
           /\ (content'[path] # content[path] \/ path \notin names') => Returns(p)]_vars

\* the first process has replaced its record while the second, which names
\* its record by a partial ID, is in the middle of writing its temporary file
DistinctRecordsSeen ==
    /\ ret[1] = Ok(Own(1))
    /\ content[CanonName(Own(1))] = Format(2)
    /\ pc[2] = "uf_write"
    /\ off[2] = 1
    /\ op[2].partial = <<"b">>

\* ------------------------------------------------------------------------
\* C12: UpdateField changes exactly one line of the record file, the named
\* field's line inside the header block; every other line is unchanged.
\* ------------------------------------------------------------------------
\* the index of the header block's closing delimiter
HeaderEnd(lines) == CHOOSE i \in 2..Len(lines) : lines[i] = <<Dashes>> /\ \A j \in 2..(i - 1) : lines[j] # <<Dashes>>

HeaderOf(lines) == SubSeq(lines, 1, HeaderEnd(lines) - 1)

\* the closing delimiter, the title and the body
AfterHeader(lines) == SubSeq(lines, HeaderEnd(lines), Len(lines))

ChangedLines(old, new) == {i \in 1..Len(old) : new[i] # old[i]}

UpdateFieldOneHeaderLine ==
    xpc = "updated" =>
        LET old == FormatText(tkt)
            ho == HeaderOf(old)
            hn == HeaderOf(text)
        IN /\ AfterHeader(text) = AfterHeader(old)
           /\ \/ /\ Len(hn) = Len(ho)
                 /\ Cardinality(ChangedLines(ho, hn)) <= 1
                 /\ \A i \in ChangedLines(ho, hn) : MatchesField(ho[i], field)
              \/ /\ \A i \in 1..Len(ho) : ~MatchesField(ho[i], field)
                 /\ hn = <<ho[1], FieldLine(field, value)>> \o Tail(ho)

\* ------------------------------------------------------------------------
\* C13: Create(t) followed by Get(t.ID) returns a record equal to t in every
\* field, nil Deps/Links being returned as empty slices.
\* ------------------------------------------------------------------------
NonNil(sl) == Slice(sl.e)

Normalized(t) == [t EXCEPT !.Deps = NonNil(t.Deps), !.Links = NonNil(t.Links)]

CreateGetRoundTrip ==
    xpc = "got" => ~parsed.err /\ parsed.t = Normalized(tkt)

\* ------------------------------------------------------------------------
\* C14: for any mix of well-formed and malformed record files, List succeeds
\* and returns exactly the records whose files parse, a malformed file
\* causing only its own record to be omitted.
\* ------------------------------------------------------------------------
RecordFiles == SelectSeq(ReadDir(names), HasSuffixMd)

Parsing == SelectSeq(RecordFiles, LAMBDA n : ~Parse(content[n]).err)

ListSkipsMalformed ==
    (lop = ListOp /\ lpc = "done" /\ dirExists) =>
        /\ lres = "ok"
        /\ listed = [i \in 1..Len(Parsing) |-> Parse(content[Parsing[i]]).t]

\* List has returned from a directory that mixes files that parse with
\* malformed ones
ListSkippedSome ==
    /\ lop = ListOp
    /\ lpc = "done"
    /\ Len(listed) >= 1
    /\ Len(RecordFiles) > Len(Parsing)
    /\ Len(Parsing) >= 2

\* ------------------------------------------------------------------------
\* C15: when the storage root does not exist no read operation reports an
\* I/O failure: List and ListByModTime return an empty result without error
\* and ResolveID fails with NotFound.
\* ------------------------------------------------------------------------
MissingRootIsEmpty ==
    ~dirExists =>
        /\ lpc = "done" => (lres = "ok" /\ listed = <<>>)
        /\ rpc = "done" => rres = ErrNotFound(partial)

MissingRootRead ==
    /\ ~dirExists
    /\ lop.name = "ListByModTime"
    /\ lpc = "done"
    /\ lres = "ok"

\* ------------------------------------------------------------------------
\* C16: a record's ID never changes after creation: after any Update and
\* UpdateField calls the ID stored inside the record file is the ID the
\* record was created under.
\* ------------------------------------------------------------------------
\* the ID a record was created under, which names its file
CreatedID == Str("a")

StoredID(lines) == YamlValue(Scanned(lines).fm, "id")

StoredIDImmutable == xpc # "create" => StoredID(text) = CreatedID

\* ------------------------------------------------------------------------
\* C19: links stay symmetric: starting from an empty store, after any
\* sequence of new, link, unlink and rm --force commands, B is in A's links
\* if and only if A is in B's links.
\* ------------------------------------------------------------------------
Existing == {id \in Ids : CanonName(id) \in names}

\* the ticket stored under id
TicketAt(id) == content[CanonName(id)].t

LinksOf(id) == IF id \in Existing THEN Range(TicketAt(id).Links.e) ELSE {}

LinksSymmetric ==
    \A a, b \in Ids : IdWord(b) \in LinksOf(a) <=> IdWord(a) \in LinksOf(b)

\* rm --force has deleted a linked ticket and linked tickets remain
LinksSymmetricSeen ==
    /\ lastCmd.name = "rm" /\ lastCmd.force /\ lastCmd.ok
    /\ \E a \in Existing : LinksOf(a) # {}

\* ------------------------------------------------------------------------
\* C17: rm never deletes a ticket that another ticket lists in its deps or
\* names as its parent, with or without --force: the command fails and the
\* target ticket still exists afterwards.
\* ------------------------------------------------------------------------
DepsOf(id) == IF id \in Existing THEN Range(TicketAt(id).Deps.e) ELSE {}

ParentOf(id) == IF id \in Existing THEN TicketAt(id).Parent ELSE <<>>

\* another ticket lists the ticket called w in its deps or names it as parent
Referenced(w) ==
    \E b \in Existing : IdWord(b) # w /\ (w \in DepsOf(b) \/ ParentOf(b) = Str(w))

RmRefusesReferenced ==
    [][(lastCmd'.name = "rm" /\ ncmd' = ncmd + 1 /\ lastCmd'.id # "" /\ Referenced(lastCmd'.id))
         => (~lastCmd'.ok /\ CanonName(Chars(lastCmd'.id)) \in names')]_vars

\* rm --force has refused a ticket that another ticket depends on
RmRefusedDependedOn ==
    /\ lastCmd.name = "rm" /\ lastCmd.force /\ ~lastCmd.ok /\ lastCmd.id # ""
    /\ \E b \in Existing : IdWord(b) # lastCmd.id /\ lastCmd.id \in DepsOf(b)

\* ------------------------------------------------------------------------
\* C18: after any successful rm, with or without --force, no remaining
\* ticket contains the deleted ticket's ID in its deps, links or parent.
\* ------------------------------------------------------------------------
NoDanglingAfterRm ==
    (lastCmd.name = "rm" /\ lastCmd.ok) =>
        \A b \in Existing : /\ lastCmd.id \notin DepsOf(b)
                             /\ lastCmd.id \notin LinksOf(b)
                             /\ ParentOf(b) # Str(lastCmd.id)

\* rm --force has deleted a ticket that was linked to one that remains
RmDeletedLinked ==
    /\ lastCmd.name = "rm" /\ lastCmd.ok /\ lastCmd.force
    /\ \E b \in Existing : IdWord(b) \in lastCmd.linked

\* ------------------------------------------------------------------------
\* C20 as claimed: clean --fix deletes a ticket only if, when the command
\* started, the ticket was closed, no ticket listed it in deps, no non-closed
\* ticket named it as parent, and it had no links; open and in_progress
\* tickets are never deleted.
\* ------------------------------------------------------------------------
Closed(id) == TicketAt(id).Status = Str("closed")

\* no non-closed ticket names id as parent and id has no links
NoChildNoLink(id) ==
    /\ \A b \in Existing : ParentOf(b) = Str(IdWord(id)) => Closed(b)
    /\ LinksOf(id) = {}

ParentWordOf(id) == IF ParentOf(id) = <<>> THEN {} ELSE {ParentOf(id)[1].s}

\* the deps, links and parent values of the ticket id
RefsOf(id) == DepsOf(id) \cup LinksOf(id) \cup ParentWordOf(id)

\* the word w is the ID of a ticket of the set S
NamesOneOf(w, S) == \E id \in S : IdWord(id) = w

CleanKeepsReferences ==
    [][(lastCmd'.name = "clean" /\ ncmd' = ncmd + 1) =>
         \A b \in Existing : CanonName(b) \in names' =>
            \A w \in RefsOf(b) : NamesOneOf(w, Existing) =>
               NamesOneOf(w, {id \in Ids : CanonName(id) \in names'})]_vars

\* ------------------------------------------------------------------------
\* C22: after prune --fix, each ticket's deps and links equal its previous
\* lists with exactly the IDs of non-existent tickets removed (existing ones
\* kept, in their original order), and its parent is cleared exactly when it
\* named a non-existent ticket.
\* ------------------------------------------------------------------------
\* the list q without the words that are the ID of no existing ticket
OnlyExisting(q) == SelectSeq(q, LAMBDA w : NamesOneOf(w, Existing))

PrunedTicket(id) ==
    [TicketAt(id) EXCEPT !.Deps = Slice(OnlyExisting(@.e)),
                         !.Links = Slice(OnlyExisting(@.e)),
                         !.Parent = IF @ # <<>> /\ ~NamesOneOf(@[1].s, Existing) THEN <<>> ELSE @]

PruneRemovesExactlyDangling ==
    [][(lastCmd'.name = "prune" /\ lastCmd'.force /\ ncmd' = ncmd + 1) =>
         /\ names' = names
         /\ \A id \in Existing : content'[CanonName(id)] = [err |-> FALSE, t |-> PrunedTicket(id)]]_vars

\* prune --fix has removed the missing bab from the deps, links and parent of
\* ab and kept the existing a in its deps
PrunedSome ==
    /\ lastCmd.name = "prune" /\ lastCmd.force /\ ncmd = 1
    /\ <<"a", "b">> \in Existing
    /\ TicketAt(<<"a", "b">>).Status = Str("closed")
    /\ TicketAt(<<"a", "b">>).Deps.e = <<"a">>
    /\ TicketAt(<<"a", "b">>).Links.e = <<>>
    /\ TicketAt(<<"a", "b">>).Parent = <<>>

\* ------------------------------------------------------------------------
\* C23: without --fix, clean and prune are dry runs that change nothing: no
\* ticket is deleted and every ticket file is unchanged.
\* ------------------------------------------------------------------------
DryRunChangesNothing ==
    [][(lastCmd'.name \in {"clean", "prune"} /\ ~lastCmd'.force /\ ncmd' = ncmd + 1) =>
         (dirExists' = dirExists /\ names' = names /\ content' = content)]_vars

\* prune without --fix has run on a closed ticket with a dangling parent,
\* which clean --fix would delete and prune --fix would change
DryRunSeen ==
    /\ lastCmd.name = "prune" /\ ~lastCmd.force
    /\ Existing = {<<"a">>}
    /\ Closed(<<"a">>)
    /\ RefsOf(<<"a">>) = {"bab"}
    /\ ParentOf(<<"a">>) = Str("bab")

\* ------------------------------------------------------------------------
\* C24: ready lists a ticket if and only if its status is open or
\* in_progress and every ID in its deps belongs to a ticket whose status is
\* closed.
\* ------------------------------------------------------------------------
ReadyTicket(id) ==
    /\ TicketAt(id).Status \in {Str("open"), Str("in_progress")}
    /\ \A w \in DepsOf(id) : \E b \in Existing : IdWord(b) = w /\ Closed(b)

ReadyListsExactlyUnblocked ==
    lastCmd.name = "ready" =>
        /\ \A id \in Existing : Has(lastCmd.out, IdWord(id)) <=> ReadyTicket(id)
        /\ \A i \in 1..Len(lastCmd.out) : NamesOneOf(lastCmd.out[i], Existing)

\* ready has listed ab, whose dep a is closed, and ab only
ReadySeen ==
    /\ lastCmd.name = "ready"
    /\ lastCmd.out = <<"ab">>
    /\ Closed(<<"a">>)
    /\ DepsOf(<<"a", "b">>) = {"a"}

\* ------------------------------------------------------------------------
\* C25: status has no transition constraints: from any of open, in_progress
\* or closed, the status, start, close and reopen commands can move a ticket
\* to any of the three values, in any order and any number of times, and the
\* stored status is always the one last set.
\* ------------------------------------------------------------------------
StatusCmds == {"status", "start", "close", "reopen"}

\* a status command naming a ticket and a valid status succeeds and stores
\* that status, and leaves the status of every other ticket as it was
StatusMovesFreely ==
    [][(lastCmd'.name \in StatusCmds /\ ncmd' = ncmd + 1 /\ lastCmd'.id # ""
            /\ lastCmd'.arg \in StatusNames) =>
         /\ lastCmd'.ok
         /\ names' = names
         /\ \A id \in Existing :
               content'[CanonName(id)].t.Status =
                  IF IdWord(id) = lastCmd'.id THEN Str(lastCmd'.arg) ELSE TicketAt(id).Status]_vars

\* reopen has moved the closed ticket ab back to open, given by a partial ID
StatusMovedBack ==
    /\ lastCmd.name = "reopen" /\ lastCmd.id = "ab" /\ lastCmd.ok
    /\ ncmd = MaxCmds
    /\ TicketAt(<<"a", "b">>).Status = Str("open")
    /\ TicketAt(<<"a">>).Status = Str("closed")

\* ------------------------------------------------------------------------
\* C26: undep <ticket> <dep> removes only the one dependency it names from
\* the ticket's deps and leaves every other dependency in place, in the same
\* order.
\* ------------------------------------------------------------------------
\* the deps list of the ticket called w, before and after the step
DepsBefore(w) == TicketAt(Chars(w)).Deps.e

UndepRemovesOne ==
    [][(lastCmd'.name = "undep" /\ lastCmd'.ok /\ ncmd' = ncmd + 1) =>
         \E d \in Range(DepsBefore(lastCmd'.id)) :
            content'[CanonName(Chars(lastCmd'.id))].t.Deps.e = Without(DepsBefore(lastCmd'.id), d)]_vars

\* ------------------------------------------------------------------------
\* C27: dep and link are idempotent: after any sequence of dep and link
\* commands (with any arguments, including repeated ones), no ticket's deps
\* or links list contains the same ID twice.
\* ------------------------------------------------------------------------
NoRepeat(q) == \A i, j \in 1..Len(q) : q[i] = q[j] => i = j

NoRepeatedDepOrLink ==
    \A id \in Existing : NoRepeat(TicketAt(id).Deps.e) /\ NoRepeat(TicketAt(id).Links.e)

\* ------------------------------------------------------------------------
\* C28: after Build, each ticket reachable from the root has subtree-depth
\* equal to the maximum of its own max-depth and the subtree-depths of its
\* dependency children, not counting any child that was skipped because it
\* is an ancestor on the traversal path (cycle-forming).
\* ------------------------------------------------------------------------
\* the dependency children of n that are in the map
ChildrenInMap(n) == {tickets[n][k] : k \in DOMAIN tickets[n]} \cap TicketIds

\* the children of n that can be above n on a traversal path: n is reached
\* from them
CycleForming(n) == {c \in ChildrenInMap(n) : n \in ReachedFrom(tickets, {c})}

\* the largest of m and the subtree-depths of the tickets of C
DepthOver(m, C) ==
    IF \E c \in C : subtreeDepth[c] > m
    THEN CHOOSE d \in {subtreeDepth[c] : c \in C} : \A c \in C : subtreeDepth[c] <= d
    ELSE m

\* Build has returned
Built == tpc \notin {"pass1", "pass2"}

SubtreeDepthIsMax ==
    Built => \A n \in ReachedFrom(tickets, {root} \cap TicketIds) :
                \E S \in SUBSET CycleForming(n) :
                   subtreeDepth[n] = DepthOver(maxDepth[n], ChildrenInMap(n) \ S)

\* ------------------------------------------------------------------------
\* C29: among the children printed under the same parent, the order is
\* ascending by subtree-depth, with ties broken by ascending ID string.
\* ------------------------------------------------------------------------
\* lines i and j are children of the same printed parent
Siblings(i, j) == output[i].path = output[j].path /\ output[i].depth = output[j].depth

\* x comes before y: smaller subtree-depth, or the same and a smaller ID
Before(x, y) ==
    \/ subtreeDepth[x] < subtreeDepth[y]
    \/ subtreeDepth[x] = subtreeDepth[y] /\ IdLess(x, y)

SiblingsInOrder ==
    \A i, j \in DOMAIN output : (i < j /\ Siblings(i, j)) => Before(output[i].id, output[j].id)

\* Render has printed c before its sibling b, whose subtree is deeper
SiblingsSeen ==
    /\ tpc = "done"
    /\ \E i, j \in DOMAIN output :
          /\ i < j /\ Siblings(i, j)
          /\ output[i].id = "c" /\ output[j].id = "b"
          /\ subtreeDepth["c"] < subtreeDepth["b"]

\* ------------------------------------------------------------------------
\* C30: closed prints the most recently modified closed tickets, most recent
\* first, up to the limit (default 20): a closed ticket is omitted only if at
\* least `limit` closed tickets were modified more recently than it.
\* ------------------------------------------------------------------------
\* the ranks of the closed tickets modified more recently than the file of rank i
ClosedBefore(i) == {j \in 1..i - 1 : recent[j].Status = Str("closed")}

ClosedPrintsMostRecent ==
    (lop.name = "closed" /\ lpc = "done") =>
        /\ \A k \in 1..Len(listed) - 1 : listed[k] < listed[k + 1]
        /\ Len(listed) <= lop.limit
        /\ \A i \in DOMAIN recent :
              (recent[i].Status = Str("closed") /\ ~Has(listed, i)) =>
                  Cardinality(ClosedBefore(i)) >= lop.limit

\* ------------------------------------------------------------------------
\* C31: the work done by each graph pass is linear in the number of tickets
\* plus dependency edges: a pass processes at most twice as many work-stack
\* items as the map has tickets and dependency entries (an item is looked at
\* at most twice, on its first and on its second visit), however many paths
\* lead from the root to a ticket.
\* ------------------------------------------------------------------------
\* the number of dependency entries of the map
RECURSIVE EdgesOf(_)
EdgesOf(S) ==
    IF S = {} THEN 0
    ELSE LET t == CHOOSE x \in S : TRUE IN Len(tickets[t]) + EdgesOf(S \ {t})

\* tickets plus dependency edges
MapSize == Cardinality(TicketIds) + EdgesOf(TicketIds)

PassWorkLinear == work.pass1 <= 2 * MapSize /\ work.pass2 <= 2 * MapSize

\* ------------------------------------------------------------------------
\* C32: no sequence or interleaving of new commands overwrites an existing
\* ticket's file: whenever a new command creates its record file, no record
\* file of that ID was there before.
\* ------------------------------------------------------------------------
\* process p runs its os.Create in this step
Creates(p) == pc[p] = "new_create" /\ pc'[p] = "new_write"

NewNeverOverwrites ==
    [][\A p \in Procs : Creates(p) => CanonName(op[p].id) \notin names]_vars

\* ------------------------------------------------------------------------
\* C33: a Get or List running concurrently with Create of a record returns
\* either no record for that ID or the complete created record, never a
\* record parsed from an empty or partially written file: every record the
\* reader returns is the created record as Parse reads it back, or a record
\* that was in the store before.
\* ------------------------------------------------------------------------
\* the records of the store before Create, and the created one, as read back
WholeRecords ==
    {Parse(GoodText(<<"a", "b">>)).t, Parse(FormatText(tkt)).t}

ReadSeesWholeRecords ==
    (lpc = "done" /\ lres = "ok") => \A k \in DOMAIN listed : listed[k] \in WholeRecords

\* ------------------------------------------------------------------------
\* C34: Update never brings a record into existence: while Update(t) runs
\* on an ID that has no record file, no step makes that file appear and
\* Update does not return success.
\* ------------------------------------------------------------------------
\* process p is inside Update(t) and t.ID has no record file
UpdatingMissing(p) == op[p].name = "Update" /\ CanonName(op[p].id) \notin names

UpdateNeverCreates ==
    [][\A p \in Procs :
          UpdatingMissing(p) => (CanonName(op[p].id) \notin names' /\ ret'[p].kind # "ok")]_vars

\* ------------------------------------------------------------------------
\* C35: after a crash at any point during Update or UpdateField, a later
\* Update or UpdateField of the same record succeeds and leaves exactly its
\* own new content at the canonical path: when the later operation returns,
\* it returns success and the record file holds the whole serialization of
\* the value it wrote.
\* ------------------------------------------------------------------------
\* process p returns from its operation in this step
Returning(p) == pc[p] \notin {"idle", "off"} /\ pc'[p] = "idle"

LaterUpdateSucceeds ==
    [][Returning(2) =>
          /\ ret'[2] = Ok(<<"a", "b">>)
          /\ CanonName(<<"a", "b">>) \in names'
          /\ content'[CanonName(<<"a", "b">>)] = Format(op[2].val)]_vars

\* the first operation was killed and the later one has returned success
\* with its content in place, the temporary file gone
LaterUpdateSeen ==
    /\ Killed
    /\ started = 2
    /\ ret[2] = Ok(<<"a", "b">>)
    /\ pc[2] = "idle"
    /\ TmpName(<<"a", "b">>) \notin names
    /\ content[CanonName(<<"a", "b">>)] = Format(2)

\* ------------------------------------------------------------------------
\* C36: whenever Update, UpdateField or WriteRaw returns, successfully or
\* with an error, no temporary file for that record remains in the storage
\* directory.
\* ------------------------------------------------------------------------
NoTmpAfterReturn ==
    [][\A p \in Procs : Returning(p) => TmpName(op[p].id) \notin names']_vars

\* ------------------------------------------------------------------------
\* C37: in every store state, including deps that name missing tickets and
\* dependency cycles, each open or in_progress ticket is listed by exactly
\* one of ready and blocked, and no closed ticket is listed by either.
\* ------------------------------------------------------------------------
\* the listings r of ready and b of blocked split the tickets of the store
Splits(r, b) ==
    \A id \in Existing :
        /\ TicketAt(id).Status \in {Str("open"), Str("in_progress")} =>
              (Has(r, IdWord(id)) <=> ~Has(b, IdWord(id)))
        /\ Closed(id) => (~Has(r, IdWord(id)) /\ ~Has(b, IdWord(id)))

ReadyOrBlocked ==
    [][(lastCmd.name = "ready" /\ lastCmd'.name = "blocked") =>
          Splits(lastCmd.out, lastCmd'.out)]_vars

\* blocked, run after ready, has listed a and ab, which depend on each
\* other and are both open
ReadyOrBlockedSeen ==
    /\ lastCmd.name = "blocked"
    /\ ncmd >= 2
    /\ lastCmd.out = <<"a", "ab">>
    /\ DepsOf(<<"a">>) = {"ab"}
    /\ DepsOf(<<"a", "b">>) = {"a"}
    /\ TicketAt(<<"a">>).Status = Str("open")
    /\ TicketAt(<<"a", "b">>).Status = Str("open")

====
